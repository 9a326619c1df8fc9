-------------------------- MODULE TelemetryProofs --------------------------
(***************************************************************************)
(* What the metrics task's frames say of OBS, for any number of launches,  *)
(* sockets and faults.  The connection is kept from one collect to the     *)
(* next, so the proof rests on a fact about connections: one that was dead *)
(* when the collect began stays dead to its end (StaysDead), since a new   *)
(* launch never takes the number of an old one.                            *)
(***************************************************************************)
EXTENDS Telemetry, TLAPS

\* A connection is to a launch that happened.
LaunchesOK == launch \in Nat /\ client \in Nat /\ client <= launch /\ lost \in BOOLEAN /\ draft \in BOOLEAN

\* The draft says connected only between the status call and the next collect.
DraftLate == draft => hub \in {"stats", "publish", "tick"}

Dead == client # NoLaunch /\ (obs = "down" \/ client # launch)

\* Up to the status call a connection lost before the collect is still dead.
StaysDead == lost /\ hub \in {"detect", "list", "status"} => Dead

\* With a lost connection the collect neither connects anew nor gets to the statistics.
LostEnds == lost => hub \notin {"connect", "nap", "stats"}

FirsthandInv == LaunchesOK /\ DraftLate /\ StaysDead /\ LostEnds /\ ConnectedIsFirsthand

USE DEF NoLaunch

\* OBS launches, exits or hangs: the number of a launch is never used again.
LEMMA ObsKeeps == FirsthandInv /\ ObsStep => FirsthandInv'
<1> SUFFICES ASSUME FirsthandInv, ObsStep PROVE FirsthandInv'
  OBVIOUS
<1>1. UNCHANGED <<hub, client, draft, lost>>
  BY DEF ObsStep, ObsLaunch, ObsChange, hubVars
<1>2. launch' \in Nat /\ client <= launch'
  BY DEF FirsthandInv, LaunchesOK, ObsStep, ObsLaunch, ObsChange
<1>3. Dead => Dead'
  BY <1>1 DEF Dead, FirsthandInv, LaunchesOK, ObsStep, ObsLaunch, ObsChange
<1> QED
  BY <1>1, <1>2, <1>3 DEF FirsthandInv, LaunchesOK, DraftLate, StaysDead, LostEnds, ConnectedIsFirsthand

\* A step of the metrics task.
LEMMA HubKeeps == FirsthandInv /\ HubStep => FirsthandInv'
<1> SUFFICES ASSUME FirsthandInv, HubStep PROVE FirsthandInv'
  OBVIOUS
<1> USE DEF FirsthandInv, LaunchesOK, DraftLate, StaysDead, LostEnds, ConnectedIsFirsthand, Dead, Hub, obsVars
<1>1. CASE Tick
  <2>1. lost' = Dead /\ draft' = FALSE /\ hub' = "detect" /\ UNCHANGED <<obs, launch, client>>
    BY <1>1 DEF Tick
  <2> QED
    BY <2>1
<1>2. CASE Detect
  BY <1>2 DEF Detect
<1>3. CASE TryConnect
  BY <1>3 DEF TryConnect
<1>4. CASE Nap
  BY <1>4 DEF Nap
<1>5. CASE ListOutputs
  BY <1>5 DEF ListOutputs, Answers
<1>6. CASE StreamingStatus
  <2>1. ~draft
    BY <1>6 DEF StreamingStatus
  <2>2. CASE hub' = "stats"
    <3>1. ~lost /\ lost' = lost /\ UNCHANGED <<launch, client>> /\ draft' = TRUE
      BY <1>6, <2>2 DEF StreamingStatus, Answers
    <3> QED
      BY <3>1, <2>2
  <2>3. CASE hub' = "publish" /\ client' = NoLaunch /\ draft' = draft
    <3>1. lost' = lost /\ UNCHANGED launch
      BY <1>6 DEF StreamingStatus
    <3> QED
      BY <2>1, <2>3, <3>1
  <2> QED
    BY <1>6, <2>2, <2>3 DEF StreamingStatus
<1>7. CASE Stats
  BY <1>7 DEF Stats
<1>8. CASE Publish
  BY <1>8 DEF Publish
<1> QED
  BY <1>1, <1>2, <1>3, <1>4, <1>5, <1>6, <1>7, <1>8 DEF HubStep

\* Readers of the frame, the tray and the ways to end leave the collect alone.
LEMMA OthersKeep ==
  ASSUME FirsthandInv, Next, ~ObsStep, ~HubStep PROVE FirsthandInv'
<1> DEFINE Apart == UNCHANGED <<obs, launch, client, draft, lost>> /\ (hub' = hub \/ hub' = "tick")
<1>1. Apart
  <2> USE DEF obsVars, hubVars
  <2>1. CASE CheckDue
    BY <2>1 DEF CheckDue
  <2>2. ASSUME NEW c \in Sockets, SocketOpen(c) \/ SocketSend(c) \/ SocketClose(c) PROVE Apart
    BY <2>2 DEF SocketOpen, SocketSend, SocketClose
  <2>3. CASE ExporterNew \/ ExporterRetry \/ ExporterRecord
    BY <2>3 DEF ExporterNew, ExporterRetry, ExporterRecord
  <2>4. CASE SpawnTasks
    BY <2>4 DEF SpawnTasks
  <2>5. CASE SpawnTray \/ (\E ok \in BOOLEAN : TrayStarts(ok)) \/ TrayQuit \/ TrayEnds
    BY <2>5 DEF SpawnTray, TrayStarts, TrayQuit, TrayEnds
  <2>6. CASE Bind \/ Drain \/ Leave \/ CtrlC
    BY <2>6 DEF Bind, Drain, Leave, CtrlC
  <2> QED
    BY <2>1, <2>2, <2>3, <2>4, <2>5, <2>6 DEF Next
<1> QED
  BY <1>1 DEF FirsthandInv, LaunchesOK, DraftLate, StaysDead, LostEnds, ConnectedIsFirsthand, Dead

\* A frame that says connected was collected from an OBS that was alive when
\* collect() began, however often OBS was closed and reopened under the kept
\* connection: only a status call that succeeds sets the flag.
THEOREM ConnectedFirsthand == Spec => []ConnectedIsFirsthand
<1>1. Init => FirsthandInv
  <2> SUFFICES ASSUME Init PROVE FirsthandInv
    OBVIOUS
  <2>1. launch \in Nat /\ client = 0 /\ hub = "off"
    BY DEF Init
  <2>2. ~draft /\ ~lost /\ draft \in BOOLEAN /\ lost \in BOOLEAN
    BY Zenon DEF Init
  <2> QED
    BY <2>1, <2>2 DEF FirsthandInv, LaunchesOK, DraftLate, StaysDead, LostEnds, ConnectedIsFirsthand
<1>2. FirsthandInv /\ [Next]_vars => FirsthandInv'
  <2>1. FirsthandInv /\ UNCHANGED vars => FirsthandInv'
    BY DEF FirsthandInv, LaunchesOK, DraftLate, StaysDead, LostEnds, ConnectedIsFirsthand, Dead, vars, obsVars, hubVars
  <2> QED
    BY <2>1, ObsKeeps, HubKeeps, OthersKeep
<1>3. FirsthandInv => ConnectedIsFirsthand
  BY DEF FirsthandInv
<1> QED
  BY <1>1, <1>2, <1>3, PTL DEF Spec
=============================================================================
