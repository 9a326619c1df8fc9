------------------------------ MODULE IpcLink ------------------------------
(***************************************************************************)
(* The link under the core's IPC sessions: two one-way named pipes that    *)
(* the core creates in turn and the plugin opens in turn, the handshake,   *)
(* the heartbeat, frames written in two parts and read under a poll        *)
(* timeout, and the protocol errors that reset a session.                  *)
(*                                                                         *)
(* A client frame is flushed before the next one is written, so the        *)
(* command pipe holds one frame at most.  What the session says is left to *)
(* SceneSwitch and SettingsSync; here a frame is only its kind.            *)
(***************************************************************************)
EXTENDS Naturals, Sequences, FiniteSetsExt

CONSTANTS
  Clients,      \* processes that open the pipes
  Foreign,      \* the clients of another build, which may speak another version
  HeartbeatTimeout, Window, Threshold,   \* in seconds, seconds and errors
  BodyWords,    \* four-byte words at the head of a frame's body that no frame length matches
  EvtCap,       \* frames the event pipe holds before a write waits
  MaxQueued,    \* requests the dock has queued, or the plugin is sending
  MaxSwitches,  \* scene switches the core waits for, and asked for during one hang
  Nobody,       \* no client
  MaxHangs, MaxCuts   \* faults: callbacks that hang, reads cut by the poll timeout

ASSUME LinkAssumption ==
  /\ Foreign \subseteq Clients /\ Nobody \notin Clients
  /\ {HeartbeatTimeout, Window, Threshold, BodyWords, EvtCap, MaxQueued, MaxSwitches, MaxHangs, MaxCuts} \subseteq Nat
  /\ HeartbeatTimeout > 0

\* The body of a client's frame begins with its id, long enough to run into the reset.
ASSUME BodyAssumption == BodyWords > Threshold

\* The event pipe takes what accumulates while the plugin hangs (a push a second,
\* a ping, two answers to each request queued meanwhile, a command and a timeout
\* notice for each switch), and what one pass of the plugin can call for besides:
\* the requests and the switches under way, the opening, the errors.
ASSUME RoomAssumption ==
  EvtCap >= MaxHangs * (HeartbeatTimeout + 1 + 2 * MaxQueued + 2 * MaxSwitches)
              + 2 * MaxQueued + 2 * MaxSwitches + Threshold + 3

VARIABLES
  srv,              \* the server task
  cmd, evt,         \* the pipe instances: state, and the client that opened them
  pc, hung,         \* clients: program point of the worker, stuck in a callback
  at, sent, since,    \* its session loop: position, opening frames sent, seconds since last_ping
  q, batch,           \* requests the dock has queued, requests taken from the queue to be sent
  wire,             \* the frame in the command pipe
  rd, words,        \* the reader: aligned, past a length, or lost; words left to misread
  hs, age, recent,  \* handshake_complete, seconds since last_ping_at, ages in ProtocolErrorTracker
  owed, push, backlog,  \* frames the core is about to write, push due, frames in the event pipe
  bus, pending, burst,  \* switches on the bus, in pending_switches, asked for since the plugin hangs
  hangs, cuts

pipeVars == <<cmd, evt>>
loopVars == <<at, sent, since, q, batch>>
readVars == <<rd, words>>
sessVars == <<hs, age, recent>>
outVars == <<owed, push, backlog>>
switchVars == <<bus, pending, burst>>
faultVars == <<hangs, cuts>>
vars == <<srv, pipeVars, pc, hung, loopVars, wire, readVars, sessVars, outVars, switchVars, faultVars>>

Gone == [st |-> "none", by |-> Nobody]
Listening == [st |-> "listening", by |-> Nobody]
Kinds == {"hello", "old", "status", "request", "result", "ping", "bad", "bye"}
Empty == [kind |-> "none", whole |-> FALSE]
Current == Clients \ Foreign

Init ==
  /\ srv = "start" /\ cmd = Gone /\ evt = Gone
  /\ pc = [c \in Clients |-> "down"] /\ hung = [c \in Clients |-> FALSE]
  /\ at = "open" /\ sent = 0 /\ since = 0 /\ q = 0 /\ batch = 0 /\ wire = Empty
  /\ rd = "aligned" /\ words = 0
  /\ hs = FALSE /\ age = 0 /\ recent = <<>>
  /\ owed = 0 /\ push = FALSE /\ backlog = 0
  /\ bus = 0 /\ pending = 0 /\ burst = 0
  /\ hangs = 0 /\ cuts = 0

-----------------------------------------------------------------------------
\* The server: run_named_pipe_server.

CreateCmd ==
  /\ srv = "start"
  /\ srv' = "created" /\ cmd' = Listening
  /\ UNCHANGED <<evt, pc, hung, loopVars, wire, readVars, sessVars, outVars, switchVars, faultVars>>

CreateEvt ==
  /\ srv = "created"
  /\ srv' = "join" /\ evt' = Listening
  /\ UNCHANGED <<cmd, pc, hung, loopVars, wire, readVars, sessVars, outVars, switchVars, faultVars>>

\* An instance a client opened and closed again counts as connected.
Joined(p) == p.st \in {"open", "closed"}

Join ==
  /\ srv = "join"
  /\ Joined(cmd) /\ Joined(evt)
  /\ srv' = "session"
  /\ UNCHANGED <<pipeVars, pc, hung, loopVars, wire, readVars, sessVars, outVars, switchVars, faultVars>>

\* Requests taken from the queue and not yet sent, with the one being written.
InFlight == batch + (IF wire.kind \in {"request", "bad"} THEN 1 ELSE 0)

\* Dropping the pipes: whoever holds the other ends finds them broken, and puts the
\* requests it could not send back into the queue.  The core forgets its switches.
Drop ==
  /\ cmd' = Gone /\ evt' = Gone
  /\ pc' = [c \in Clients |-> IF pc[c] = "up" THEN "broken" ELSE pc[c]]
  /\ wire' = Empty /\ rd' = "aligned" /\ words' = 0
  /\ hs' = FALSE /\ age' = 0 /\ recent' = <<>>
  /\ owed' = 0 /\ push' = FALSE /\ backlog' = 0
  /\ bus' = 0 /\ pending' = 0 /\ burst' = 0
  /\ at' = "open" /\ sent' = 0 /\ since' = 0
  /\ q' \in {q + batch, q + InFlight} /\ batch' = 0
  /\ UNCHANGED <<hung, faultVars>>

\* Creating or connecting a pipe fails: the task ends and is not restarted.
PipeError ==
  /\ srv \in {"start", "created", "join"}
  /\ srv' = "dead"
  /\ Drop

End == srv' = "start" /\ Drop

\* The session says why before it ends, which takes room in the event pipe.
EndWithNotice == (evt.st = "closed" \/ backlog < EvtCap) /\ End

-----------------------------------------------------------------------------
\* The session: handle_session_io.  A pass begins when nothing is left to write.

InSession == srv = "session" /\ owed = 0

\* A failed write ends the session; where the code passes over the failure, the
\* next write or read ends it.
WriteFrame ==
  /\ srv = "session" /\ owed > 0
  /\ \/ /\ evt.st = "open" /\ backlog < EvtCap
        /\ owed' = owed - 1 /\ backlog' = backlog + 1
        /\ UNCHANGED <<srv, pipeVars, pc, hung, loopVars, wire, readVars, sessVars, push, switchVars, faultVars>>
     \/ evt.st = "closed" /\ End

\* The commands on the bus are sent and wait for their result, or are dropped
\* before the handshake.
SwitchCommand ==
  /\ InSession /\ bus > 0
  /\ bus' = bus - 1
  /\ IF hs THEN pending' = pending + 1 /\ owed' = 1 ELSE UNCHANGED <<pending, owed>>
  /\ UNCHANGED <<srv, pipeVars, pc, hung, loopVars, wire, readVars, sessVars, push, backlog, burst, faultVars>>

\* A deadline, of 50 ms to 5 s, passed without a result: a notice says so.
SwitchTimeout ==
  /\ InSession /\ pending > 0
  /\ pending' = pending - 1 /\ owed' = 1
  /\ UNCHANGED <<srv, pipeVars, pc, hung, loopVars, wire, readVars, sessVars, push, backlog, bus, burst, faultVars>>

\* The push counts as a sign of life.
Bug_StatusPush ==
  /\ InSession /\ hs /\ push
  /\ push' = FALSE /\ owed' = 1 /\ age' = 0
  /\ UNCHANGED <<srv, pipeVars, pc, hung, loopVars, wire, readVars, hs, recent, backlog, switchVars, faultVars>>

StatusPush ==
  /\ InSession /\ hs /\ push
  /\ push' = FALSE /\ owed' = 1
  /\ UNCHANGED <<srv, pipeVars, pc, hung, loopVars, wire, readVars, sessVars, backlog, switchVars, faultVars>>

Silent ==
  /\ InSession /\ hs /\ ~push
  /\ age >= HeartbeatTimeout
  /\ EndWithNotice

\* Where in the tracker the errors of the last Window seconds are.
InWindow(s) == {i \in DOMAIN s : s[i] <= Window}

\* Errors are counted over the whole session.
Bug_Recorded(s) == Append(s, 0)

\* ProtocolErrorTracker: the new error goes to the back, and the front is popped
\* until it is one of the window's.
Recorded(s) == LET t == Append(s, 0) IN SubSeq(t, Min(InWindow(t)), Len(t))

ShouldReset(s) == Len(Recorded(s)) > Threshold

\* An error is reported and counted; what else the step does is in rest.
Error(rest) ==
  IF ShouldReset(recent)
    THEN EndWithNotice
    ELSE rest /\ recent' = Recorded(recent) /\ owed' = 1
         /\ UNCHANGED <<srv, pipeVars, pc, hung, loopVars, hs, age, push, backlog, switchVars, faultVars>>

ReadLength ==
  /\ InSession /\ rd = "aligned" /\ wire # Empty
  /\ rd' = "body"
  /\ UNCHANGED <<srv, pipeVars, pc, hung, loopVars, wire, words, sessVars, outVars, switchVars, faultVars>>

\* The poll timeout drops the read between length and body, and the length with it.
CutRead ==
  /\ InSession /\ rd = "body" /\ ~wire.whole
  /\ cuts < MaxCuts
  /\ cuts' = cuts + 1
  /\ rd' = "lost" /\ words' = BodyWords
  /\ UNCHANGED <<srv, pipeVars, pc, hung, loopVars, wire, sessVars, outVars, switchVars, hangs>>

\* A frame that cannot be decoded is skipped.
Bug_Misread ==
  /\ InSession /\ rd = "lost" /\ wire.whole
  /\ wire' = Empty /\ rd' = "aligned" /\ words' = 0
  /\ UNCHANGED <<srv, pipeVars, pc, hung, loopVars, sessVars, outVars, switchVars, faultVars>>

\* Words of the body are taken for lengths, each too large.
Misread ==
  /\ InSession /\ rd = "lost" /\ wire.whole
  /\ Error(/\ words' = words - 1
           /\ wire' = IF words = 1 THEN Empty ELSE wire
           /\ rd' = IF words = 1 THEN "aligned" ELSE "lost")

\* What follows from a frame that was read whole.
Answered == wire' = Empty /\ rd' = "aligned"

Hello ==
  /\ hs' = TRUE /\ age' = 0 /\ push' = TRUE /\ owed' = 1 /\ Answered
  /\ UNCHANGED <<srv, pipeVars, pc, hung, loopVars, words, recent, backlog, switchVars, faultVars>>

Ping ==
  /\ age' = 0 /\ owed' = 1 /\ Answered
  /\ UNCHANGED <<srv, pipeVars, pc, hung, loopVars, words, hs, recent, push, backlog, switchVars, faultVars>>

RequestStatus ==
  /\ push' = FALSE /\ owed' = 1 /\ Answered
  /\ UNCHANGED <<srv, pipeVars, pc, hung, loopVars, words, sessVars, backlog, switchVars, faultVars>>

\* set_mode_request and set_setting_request: a notice and a snapshot when something
\* changed, an error that is not counted for a value that is not known, else nothing.
Override ==
  /\ \/ push' = FALSE /\ owed' = 2
     \/ UNCHANGED push /\ owed' \in {0, 1}
  /\ Answered
  /\ UNCHANGED <<srv, pipeVars, pc, hung, loopVars, words, sessVars, backlog, switchVars, faultVars>>

\* scene_switch_result: of a switch that is waited for, or of none.
SwitchResult ==
  /\ pending' \in {pending} \cup (IF pending > 0 THEN {pending - 1} ELSE {})
  /\ Answered
  /\ UNCHANGED <<srv, pipeVars, pc, hung, loopVars, words, sessVars, outVars, bus, burst, faultVars>>

ReadBody ==
  /\ InSession /\ rd = "body" /\ wire.whole
  /\ \/ wire.kind = "hello" /\ Hello
     \/ wire.kind = "ping" /\ Ping
     \/ wire.kind = "status" /\ RequestStatus
     \/ wire.kind = "request" /\ (RequestStatus \/ Override)
     \/ wire.kind = "result" /\ SwitchResult
     \/ wire.kind = "bad" /\ Error(Answered /\ UNCHANGED words)
     \/ wire.kind = "old" /\ EndWithNotice
     \/ wire.kind = "bye" /\ End

\* The client closed its end and nothing whole is left in the pipe.
ReadEof ==
  /\ InSession
  /\ cmd.st = "closed" /\ ~wire.whole
  /\ End

ServerStep ==
  \/ CreateCmd \/ CreateEvt \/ Join \/ WriteFrame \/ StatusPush \/ Silent
  \/ ReadLength \/ Misread \/ ReadBody \/ ReadEof

SwitchStep == SwitchCommand \/ SwitchTimeout

-----------------------------------------------------------------------------
\* The plugin's worker: WorkerLoop and ConnectPipes.

\* A failure to open the command pipe does not end the attempt.
Bug_OpenCmd(c) ==
  /\ pc[c] = "down"
  /\ cmd' = IF cmd.st = "listening" THEN [st |-> "open", by |-> c] ELSE cmd
  /\ pc' = [pc EXCEPT ![c] = "half"]
  /\ UNCHANGED <<srv, evt, hung, loopVars, wire, readVars, sessVars, outVars, switchVars, faultVars>>

\* While no instance listens the open fails and the worker sleeps: no step.
OpenCmd(c) ==
  /\ pc[c] = "down"
  /\ cmd.st = "listening"
  /\ cmd' = [st |-> "open", by |-> c]
  /\ pc' = [pc EXCEPT ![c] = "half"]
  /\ UNCHANGED <<srv, evt, hung, loopVars, wire, readVars, sessVars, outVars, switchVars, faultVars>>

Closed(p, c) == IF p.by = c THEN [p EXCEPT !.st = "closed"] ELSE p

OpenEvt(c) ==
  /\ pc[c] = "half"
  /\ IF evt.st = "listening"
       THEN evt' = [st |-> "open", by |-> c] /\ pc' = [pc EXCEPT ![c] = "up"] /\ UNCHANGED cmd
       ELSE cmd' = Closed(cmd, c) /\ pc' = [pc EXCEPT ![c] = "down"] /\ UNCHANGED evt
  /\ UNCHANGED <<srv, hung, loopVars, wire, readVars, sessVars, outVars, switchVars, faultVars>>

\* A read, a peek or a write fails: the session loop ends and the pipes are closed.
Notice(c) ==
  /\ pc[c] = "broken" /\ ~hung[c]
  /\ pc' = [pc EXCEPT ![c] = "down"]
  /\ UNCHANGED <<srv, pipeVars, hung, loopVars, wire, readVars, sessVars, outVars, switchVars, faultVars>>

\* ConnectedSessionLoop.  A write returns when the frame has been read.
Looping(c, here) == pc[c] = "up" /\ evt.by = c /\ ~hung[c] /\ at = here /\ wire = Empty

Begin(kind) == wire' = [kind |-> kind, whole |-> FALSE]

EndWrite(c) ==
  /\ pc[c] = "up" /\ evt.by = c
  /\ wire # Empty /\ ~wire.whole
  /\ wire' = [wire EXCEPT !.whole = TRUE]
  /\ UNCHANGED <<srv, pipeVars, pc, hung, loopVars, readVars, sessVars, outVars, switchVars, faultVars>>

\* hello, then the first request_status, one a pass.
SendOpening(c) ==
  /\ Looping(c, "open")
  /\ at' = "drain" /\ q' = 0 /\ batch' = q
  /\ \/ sent = 0 /\ sent' = 1 /\ \E k \in IF c \in Foreign THEN {"hello", "old"} ELSE {"hello"} : Begin(k)
     \/ sent = 1 /\ sent' = 2 /\ Begin("status")
     \/ sent = 2 /\ UNCHANGED <<sent, wire>>
  /\ UNCHANGED <<srv, pipeVars, pc, hung, since, readVars, sessVars, outVars, switchVars, faultVars>>

\* The requests that were queued when the drain began, and at unload the shutdown notice.
Drain(c) ==
  /\ Looping(c, "drain")
  /\ \/ batch > 0 /\ batch' = batch - 1 /\ at' = at /\ \E k \in IF c \in Foreign THEN {"request", "bad"} ELSE {"request"} : Begin(k)
     \/ batch = 0 /\ at' = "beat" /\ UNCHANGED <<batch, wire>>
  /\ UNCHANGED <<srv, pipeVars, pc, hung, sent, since, q, readVars, sessVars, outVars, switchVars, faultVars>>

\* The result of a switch, also one that comes too late or was put back by an earlier
\* session: which results there are is the subject of SceneSwitch.
SendResult(c) ==
  /\ Looping(c, "drain")
  /\ MaxSwitches > 0
  /\ Begin("result")
  /\ UNCHANGED <<srv, pipeVars, pc, hung, loopVars, readVars, sessVars, outVars, switchVars, faultVars>>

SendShutdownNotice(c) ==
  /\ Looping(c, "drain")
  /\ Begin("bye")
  /\ UNCHANGED <<srv, pipeVars, pc, hung, loopVars, readVars, sessVars, outVars, switchVars, faultVars>>

SendPing(c) ==
  /\ Looping(c, "beat")
  /\ at' = "read"
  /\ IF since > 0 THEN since' = 0 /\ Begin("ping") ELSE UNCHANGED <<since, wire>>
  /\ UNCHANGED <<srv, pipeVars, pc, hung, sent, q, batch, readVars, sessVars, outVars, switchVars, faultVars>>

\* One frame is handled a pass; with none the read times out.
TryReadFrame(c) ==
  /\ Looping(c, "read")
  /\ at' = "open"
  /\ backlog' = IF backlog > 0 THEN backlog - 1 ELSE 0
  /\ UNCHANGED <<srv, pipeVars, pc, hung, sent, since, q, batch, wire, readVars, sessVars, owed, push, switchVars, faultVars>>

ClientStep(c) ==
  \/ OpenCmd(c) \/ OpenEvt(c) \/ Notice(c)
  \/ EndWrite(c) \/ SendOpening(c) \/ Drain(c) \/ SendPing(c) \/ TryReadFrame(c)

-----------------------------------------------------------------------------
\* The user, time and faults.

\* A plugin that is not hung gets through its loop, and the core through its own,
\* well within a second: the loops poll every 250 ms.
Settled == evt.st = "open" /\ ~hung[evt.by] => wire = Empty /\ backlog = 0 /\ since = 0 /\ sent = 2

\* The dock queues a request: a person is slower than the loop, so that requests
\* pile up only while the plugin is not connected or hangs.
Ask ==
  /\ Settled
  /\ q + InFlight < MaxQueued
  /\ q' = q + 1
  /\ UNCHANGED <<srv, pipeVars, pc, hung, at, sent, since, batch, wire, readVars, sessVars, outVars, switchVars, faultVars>>

\* post_ipc_switch_scene: the bus has a receiver while there is a session, else
\* the request is refused.  As slow as the dock's, but for a burst during a hang.
PostSwitch ==
  /\ Settled
  /\ srv = "session"
  /\ bus + pending < MaxSwitches /\ burst < MaxSwitches
  /\ bus' = bus + 1
  /\ burst' = IF evt.st = "open" /\ hung[evt.by] THEN burst + 1 ELSE burst
  /\ UNCHANGED <<srv, pipeVars, pc, hung, loopVars, wire, readVars, sessVars, outVars, pending, faultVars>>

\* The callback that handles a frame does not return for a while.
Hang(c) ==
  /\ Looping(c, "read") /\ backlog > 0
  /\ hangs < MaxHangs
  /\ hangs' = hangs + 1
  /\ backlog' = backlog - 1
  /\ hung' = [hung EXCEPT ![c] = TRUE]
  /\ at' = "open"
  /\ UNCHANGED <<srv, pipeVars, pc, sent, since, q, batch, wire, readVars, sessVars, owed, push, bus, pending, burst, cuts>>

Wake(c) ==
  /\ hung[c]
  /\ hung' = [hung EXCEPT ![c] = FALSE]
  /\ burst' = IF evt.by = c THEN 0 ELSE burst
  /\ UNCHANGED <<srv, pipeVars, pc, loopVars, wire, readVars, sessVars, outVars, bus, pending, faultVars>>

\* OBS exits or crashes, wherever its worker is, and may be started again.
Exit(c) ==
  /\ pc[c] # "off"
  /\ pc' = [pc EXCEPT ![c] = "off"]
  /\ hung' = [hung EXCEPT ![c] = FALSE]
  /\ cmd' = Closed(cmd, c) /\ evt' = Closed(evt, c)
  /\ IF evt.by = c
       THEN at' = "open" /\ sent' = 0 /\ since' = 0 /\ batch' = 0 /\ backlog' = 0
       ELSE UNCHANGED <<at, sent, since, batch, backlog>>
  /\ UNCHANGED <<srv, q, wire, readVars, sessVars, owed, push, switchVars, faultVars>>

Launch(c) ==
  /\ pc[c] = "off"
  /\ pc' = [pc EXCEPT ![c] = "down"]
  /\ UNCHANGED <<srv, pipeVars, hung, loopVars, wire, readVars, sessVars, outVars, switchVars, faultVars>>

Older(a) == IF a > Window THEN a ELSE a + 1

Second ==
  /\ InSession /\ Settled
  /\ ~(hs /\ push) /\ age < HeartbeatTimeout
  /\ age' = age + 1
  /\ recent' = [i \in DOMAIN recent |-> Older(recent[i])]
  /\ since' = IF since < HeartbeatTimeout THEN since + 1 ELSE since
  /\ push' = TRUE
  /\ UNCHANGED <<srv, pipeVars, pc, hung, at, sent, q, batch, wire, readVars, hs, owed, backlog, switchVars, faultVars>>

Next ==
  \/ ServerStep \/ PipeError \/ CutRead \/ SwitchStep \/ Second \/ Ask \/ PostSwitch
  \/ \E c \in Clients : ClientStep(c) \/ SendResult(c) \/ SendShutdownNotice(c) \/ Hang(c) \/ Wake(c) \/ Exit(c) \/ Launch(c)

Spec == Init /\ [][Next]_vars

\* Both loops run on and time passes; nothing obliges OBS, the user or a fault.
Fairness == WF_vars(ServerStep) /\ WF_vars(Second) /\ \A c \in Clients : WF_vars(ClientStep(c))

FairSpec == Spec /\ Fairness

-----------------------------------------------------------------------------
\* Both pipes of a pair are the same client's, and a client that holds a pair
\* holds the one the core serves: commands of one OBS are never answered to another.
PairMatched ==
  /\ Joined(cmd) /\ Joined(evt) => cmd.by = evt.by
  /\ \A c \in Clients : pc[c] = "up" => cmd.by = c /\ evt.by = c

\* The core never waits for room in the event pipe while the plugin waits for
\* its frame to be read: neither would ever go on, since no write has a timeout.
NotWedged == ~(evt.st = "open" /\ owed > 0 /\ backlog = EvtCap /\ wire # Empty)

\* A session is dropped as noisy exactly when an error too many falls into the
\* window, and as silent only when the plugin left, or by its own clock sent no
\* ping for so long or only just now.
EndsDeserved ==
  [][srv = "session" =>
       /\ srv' = "session" => Cardinality(InWindow(recent')) <= Threshold
       /\ srv' # "session" /\ (Misread \/ (ReadBody /\ wire.kind = "bad")) => Cardinality(InWindow(recent)) = Threshold
       /\ Silent => since = HeartbeatTimeout \/ wire.kind = "ping" \/ evt.st = "closed"]_vars

\* A client opened the command pipe and closed it before the event pipe was there:
\* the core waits for an event client, and no client gets past the command pipe.
LockedOut == srv = "join" /\ cmd.st = "closed" /\ evt.st = "listening"

\* The plugin gets a session with a handshake again and again, whatever ended the
\* last one, unless the server task ended, the pair is locked out, OBS is closed or
\* hangs, or a client of another build competes for the pipes.
LinkRecovers ==
  []<>(\/ hs \/ srv = "dead" \/ LockedOut
       \/ \A c \in Current : pc[c] = "off" \/ hung[c]
       \/ \E c \in Foreign : pc[c] # "off")
=============================================================================
