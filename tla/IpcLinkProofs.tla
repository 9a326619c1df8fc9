--------------------------- MODULE IpcLinkProofs ---------------------------
(***************************************************************************)
(* The link for any number of clients, any timeouts, thresholds and rooms. *)
(* Three invariants, each resting on the one before it:                    *)
(*                                                                         *)
(*   PairInv   who holds which pipe at each point of server and workers    *)
(*             (PairMatched);                                              *)
(*   LoopInv   the tracker's order, the lost frame, the two clocks         *)
(*             (EndsDeserved), the switches and requests under way;        *)
(*   RoomOK    what is in the event pipe and what will be written to it    *)
(*             before time passes again (NotWedged).                       *)
(***************************************************************************)
EXTENDS IpcLink, FiniteSetTheorems, TLAPS

Who == Clients \cup {Nobody}
Pipe == [st: {"none", "listening", "open", "closed"}, by: Who]

\* Which pipes there are at each point of the server.
PipesOK ==
  /\ srv \in {"start", "created", "join", "session", "dead"}
  /\ cmd \in Pipe /\ evt \in Pipe
  /\ pc \in [Clients -> {"off", "down", "half", "up", "broken"}]
  /\ srv \in {"start", "dead"} => cmd = Gone
  /\ srv \in {"start", "created", "dead"} => evt = Gone
  /\ srv = "session" => Joined(evt)
  /\ Joined(cmd) <=> cmd.by \in Clients
  /\ Joined(evt) <=> evt.by \in Clients

\* Who holds them.
HoldersOK ==
  /\ Joined(evt) => Joined(cmd) /\ cmd.by = evt.by
  /\ evt.st = "open" => pc[evt.by] = "up"
  /\ \A c \in Clients :
       /\ pc[c] = "half" => srv = "dead" \/ (cmd = [st |-> "open", by |-> c] /\ ~Joined(evt))
       /\ pc[c] = "up" => cmd = [st |-> "open", by |-> c] /\ evt = [st |-> "open", by |-> c]

\* The variables of the link's two loops.
LoopsOK ==
  /\ hung \in [Clients -> BOOLEAN]
  /\ at \in {"open", "drain", "beat", "read"} /\ sent \in 0..2 /\ since \in 0..HeartbeatTimeout
  /\ q \in 0..MaxQueued /\ batch \in 0..MaxQueued
  /\ wire \in [kind: Kinds, whole: BOOLEAN] \cup {Empty}
  /\ rd \in {"aligned", "body", "lost"} /\ words \in 0..BodyWords
  /\ hs \in BOOLEAN /\ age \in 0..HeartbeatTimeout
  /\ owed \in 0..2 /\ push \in BOOLEAN /\ backlog \in Nat
  /\ hangs \in 0..MaxHangs /\ cuts \in Nat
  /\ rd # "aligned" => wire # Empty
  /\ rd = "lost" => words > 0
  /\ batch > 0 => at = "drain"

\* The switches on the bus and in pending_switches, none of them without a session.
SwitchesOK ==
  /\ bus \in Nat /\ pending \in Nat /\ bus + pending <= MaxSwitches /\ burst \in 0..MaxSwitches
  /\ ~Joined(evt) => bus = 0 /\ pending = 0

\* A request that comes back from a session that ended has kept its place in the queue.
QueueOK == q + InFlight <= MaxQueued

\* Nothing is under way before the event pipe is opened.
Quiet == 
  /\ at = "open" /\ sent = 0 /\ since = 0 /\ batch = 0 /\ wire = Empty
  /\ rd = "aligned" /\ age = 0 /\ recent = <<>> /\ owed = 0 /\ ~push /\ backlog = 0

StartsQuiet == ~Joined(evt) => Quiet

Ages == 0..(Window + 1)
Sorted(s) == \A i, j \in DOMAIN s : i <= j => s[j] <= s[i]

\* The tracker: the oldest error in front, and never more than the threshold.
TrackerOK ==
  /\ recent \in Seq(Ages)
  /\ Len(recent) <= Threshold
  /\ Sorted(recent)

Lost == BodyWords - words

\* While the plugin waits for a lost frame no time passes: the errors it causes are all new.
LostOK ==
  evt.st = "open" /\ rd = "lost" =>
    /\ Lost <= Len(recent)
    /\ \A i \in DOMAIN recent : i > Len(recent) - Lost => recent[i] = 0

\* By the core's clock the last ping is no older than by the plugin's.
ClocksOK == evt.st = "open" /\ wire.kind # "ping" => age <= since

\* A hung worker hung on a read, with nothing written.
HungOK ==
  /\ \A c \in Clients : hung[c] => pc[c] \in {"up", "broken"}
  /\ evt.st = "open" /\ hung[evt.by] => at = "open" /\ batch = 0 /\ wire = Empty /\ hangs > 0

One(b) == IF b THEN 1 ELSE 0
Opening == CASE sent = 0 -> 3 [] sent = 1 -> 1 [] OTHER -> 0
Answers(k) == CASE k \in {"hello", "request"} -> 2 [] k \in {"old", "status", "ping", "bad"} -> 1 [] OTHER -> 0
InWire == IF rd = "lost" THEN Threshold - Lost ELSE Answers(wire.kind)

\* A command on the bus is sent and may time out; a switch that was sent may time out.
Switches == 2 * bus + pending

Base == 2 * MaxQueued + 2 * MaxSwitches + 3
PerHang == HeartbeatTimeout + 1 + 2 * MaxQueued + 2 * MaxSwitches

\* Frames in the event pipe and frames that will be written without time passing,
\* but for the answers to the queued requests.
Coming == backlog + owed + One(push) + One(since > 0) + 2 * batch + Opening + InWire + Switches

RoomOK ==
  evt.st = "open" =>
    IF hung[evt.by]
      THEN Coming <= Base + (hangs - 1) * PerHang + age + One(since > 0) + 2 * burst
      ELSE Coming + 2 * q <= Base + hangs * PerHang + (IF rd = "lost" THEN Threshold ELSE 0)

-----------------------------------------------------------------------------
\* The steps that touch a pipe or a worker's program point.

Reset == Drop /\ (srv' = "dead" \/ (srv = "session" /\ srv' = "start"))
Apart == UNCHANGED <<srv, cmd, evt, pc>>
WorkerMoves(c) == OpenCmd(c) \/ OpenEvt(c) \/ Notice(c) \/ Exit(c) \/ Launch(c)

\* Whatever a session does, it either leaves the pipes alone or ends with all of them dropped.
LEMMA SessionMoves ==
  ASSUME SwitchStep \/ WriteFrame \/ StatusPush \/ Silent \/ ReadLength \/ Misread \/ ReadBody \/ ReadEof \/ PipeError \/ CutRead
  PROVE Reset \/ Apart
<1> USE DEF pipeVars, InSession
<1>1. CASE PipeError
  BY <1>1 DEF Reset, PipeError
<1>2. CASE SwitchStep \/ WriteFrame \/ StatusPush \/ Silent
  BY <1>2 DEF SwitchStep, SwitchCommand, SwitchTimeout, WriteFrame, StatusPush, Silent, Apart, Reset, End, EndWithNotice
<1>3. CASE ReadLength \/ CutRead \/ ReadEof
  BY <1>3 DEF ReadLength, CutRead, ReadEof, Apart, Reset, End
<1>4. CASE Misread
  BY <1>4 DEF Misread, Error, Apart, Reset, End, EndWithNotice
<1>5. CASE ReadBody
  BY <1>5 DEF ReadBody, Error, Hello, Ping, RequestStatus, Override, SwitchResult, Apart, Reset, End, EndWithNotice
<1> QED
  BY <1>1, <1>2, <1>3, <1>4, <1>5

LEMMA Moves ==
  ASSUME Next
  PROVE CreateCmd \/ CreateEvt \/ Join \/ Reset \/ Apart \/ \E c \in Clients : WorkerMoves(c)
<1> USE DEF pipeVars
<1>1. CASE ServerStep \/ SwitchStep \/ PipeError \/ CutRead
  BY <1>1, SessionMoves DEF ServerStep
<1>2. CASE Second \/ Ask \/ PostSwitch
  BY <1>2 DEF Second, Ask, PostSwitch, Apart
<1>3. ASSUME NEW c \in Clients, EndWrite(c) \/ SendOpening(c) \/ Drain(c) \/ SendPing(c) \/ TryReadFrame(c)
      PROVE Apart
  BY <1>3 DEF EndWrite, SendOpening, Drain, SendPing, TryReadFrame, Apart
<1>4. ASSUME NEW c \in Clients, SendResult(c) \/ SendShutdownNotice(c) \/ Hang(c) \/ Wake(c) PROVE Apart
  BY <1>4 DEF SendResult, SendShutdownNotice, Hang, Wake, Apart
<1> QED
  BY <1>1, <1>2, <1>3, <1>4 DEF Next, ClientStep, WorkerMoves

PairInv == PipesOK /\ HoldersOK

\* Pipes are created and opened in turn, so that a worker between the two holds a
\* command pipe with an event pipe that nobody else can get at.
LEMMA PairStep == PairInv /\ [Next]_vars => PairInv'
<1> SUFFICES ASSUME PairInv, [Next]_vars PROVE PairInv'
  OBVIOUS
<1> USE DEF PairInv, PipesOK, HoldersOK, Joined, Gone, Listening, Who, Pipe
<1>0. Nobody \notin Clients
  BY LinkAssumption
<1>1. CASE CreateCmd
  BY <1>0, <1>1 DEF CreateCmd
<1>2. CASE CreateEvt
  BY <1>0, <1>2 DEF CreateEvt
<1>3. CASE Join
  BY <1>3 DEF Join, pipeVars
<1>4. CASE Reset
  <2>1. cmd' = Gone /\ evt' = Gone /\ srv' \in {"start", "dead"}
    BY <1>4 DEF Reset, Drop
  <2>2. pc' \in [Clients -> {"off", "down", "half", "up", "broken"}]
        /\ \A c \in Clients : pc'[c] # "up" /\ (pc'[c] = "half" => pc[c] = "half")
    BY <1>4 DEF Reset, Drop
  <2>3. \A c \in Clients : pc'[c] = "half" => srv' = "dead"
    BY <1>4, <2>2 DEF Reset
  <2> QED
    BY <1>0, <2>1, <2>2, <2>3
<1>5. CASE Apart \/ UNCHANGED vars
  BY <1>5 DEF Apart, vars, pipeVars
<1>6. ASSUME NEW c \in Clients, OpenCmd(c) PROVE PairInv'
  BY <1>0, <1>6 DEF OpenCmd
<1>7. ASSUME NEW c \in Clients, OpenEvt(c) PROVE PairInv'
  BY <1>0, <1>7 DEF OpenEvt, Closed
<1>8. ASSUME NEW c \in Clients, Notice(c) \/ Launch(c) PROVE PairInv'
  BY <1>0, <1>8 DEF Notice, Launch, pipeVars
<1>9. ASSUME NEW c \in Clients, Exit(c) PROVE PairInv'
  BY <1>0, <1>9 DEF Exit, Closed
<1> QED
  BY <1>1, <1>2, <1>3, <1>4, <1>5, <1>6, <1>7, <1>8, <1>9, Moves DEF WorkerMoves

\* The pipes and their holders fit at every moment: the inductive invariant behind PairMatched.
THEOREM PairInvariant == Spec => []PairInv
<1>1. Init => PairInv
  BY LinkAssumption DEF Init, PairInv, PipesOK, HoldersOK, Joined, Gone, Who, Pipe
<1> QED
  BY <1>1, PairStep, PTL DEF Spec

\* Both pipes the core serves are the same client's, and a client with a pair has
\* the one the core serves, for any number of OBS processes that come, go and
\* compete for the pipes between the two opens.
THEOREM PairsMatch == Spec => []PairMatched
<1>1. PairInv => PairMatched
  BY DEF PairInv, HoldersOK, PairMatched
<1> QED
  BY <1>1, PairInvariant, PTL

-----------------------------------------------------------------------------
\* The tracker of protocol errors.

\* A set of positions has a first one.
LEMMA FirstPosition ==
  ASSUME NEW S \in SUBSET Nat, S # {}
  PROVE Min(S) \in S /\ \A y \in S : Min(S) <= y
<1>1. PICK x \in S : \A y \in S : ~(<<y, x>> \in OpToRel(<, Nat))
  <2>1. IsWellFoundedOn(OpToRel(<, Nat), Nat)
    BY NatLessThanWellFounded
  <2> QED
    BY <2>1, WFMin, Zenon
<1>2. \A y \in S : x <= y
  <2> TAKE y \in S
  <2>1. x \in Nat /\ y \in Nat
    OBVIOUS
  <2>2. ~(y < x)
    BY <1>1, <2>1 DEF OpToRel
  <2> QED
    BY <2>1, <2>2
<1> QED
  BY <1>2 DEF Min

\* What popping the front does: from some position on everything is kept, and
\* everything before it is too old.
LEMMA RecordedIs ==
  ASSUME NEW s \in Seq(Ages)
  PROVE \E k \in 1..Len(s) + 1 :
          /\ Recorded(s) = SubSeq(Append(s, 0), k, Len(s) + 1)
          /\ \A i \in 1..k - 1 : Append(s, 0)[i] > Window
          /\ Append(s, 0)[k] <= Window
<1> DEFINE t == Append(s, 0)
           k == Min(InWindow(t))
<1>1. Window \in Nat
  BY LinkAssumption
<1>2. t \in Seq(Ages) /\ Len(t) = Len(s) + 1 /\ t[Len(s) + 1] = 0 /\ DOMAIN t = 1..Len(s) + 1
  BY <1>1 DEF Ages
<1>3. InWindow(t) \in SUBSET Nat /\ InWindow(t) # {}
  BY <1>1, <1>2 DEF InWindow
<1>4. k \in InWindow(t) /\ \A y \in InWindow(t) : k <= y
  BY <1>3, FirstPosition
<1>5. Recorded(s) = SubSeq(t, k, Len(s) + 1)
  BY <1>2 DEF Recorded
<1> HIDE DEF k, t
<1>6. k \in 1..Len(s) + 1 /\ t[k] <= Window
  BY <1>2, <1>4 DEF InWindow
<1>7. \A i \in 1..k - 1 : t[i] > Window
  <2> TAKE i \in 1..k - 1
  <2>1. i \in DOMAIN t /\ i \notin InWindow(t)
    BY <1>2, <1>4, <1>6
  <2>2. t[i] \in Nat
    BY <1>1, <1>2, <2>1 DEF Ages
  <2> QED
    BY <1>1, <2>1, <2>2 DEF InWindow
<1> QED
  BY <1>5, <1>6, <1>7 DEF t

\* The tracker stays in order, and as long as nothing is popped its newest errors stay at the back.
LEMMA RecordedOK ==
  ASSUME NEW s \in Seq(Ages), Sorted(s)
  PROVE /\ Recorded(s) \in Seq(Ages)
        /\ Sorted(Recorded(s))
        /\ Len(Recorded(s)) \in 1..Len(s) + 1
        /\ \A n \in 0..Len(s) :
             (\A i \in DOMAIN s : i > Len(s) - n => s[i] = 0) =>
               /\ n + 1 <= Len(Recorded(s))
               /\ \A i \in DOMAIN Recorded(s) : i > Len(Recorded(s)) - (n + 1) => Recorded(s)[i] = 0
        /\ Len(Recorded(s)) = Len(s) + 1 => \A i \in DOMAIN s : s[i] <= Window
<1> DEFINE t == Append(s, 0)
<1>0. Window \in Nat
  BY LinkAssumption
<1>1. PICK k \in 1..Len(s) + 1 :
          /\ Recorded(s) = SubSeq(t, k, Len(s) + 1)
          /\ \A i \in 1..k - 1 : t[i] > Window
          /\ t[k] <= Window
  BY RecordedIs
<1>2. t \in Seq(Ages) /\ Len(t) = Len(s) + 1 /\ DOMAIN t = 1..Len(s) + 1 /\ Len(s) \in Nat
  BY <1>0 DEF Ages
<1>3. t[Len(s) + 1] = 0 /\ \A i \in DOMAIN s : t[i] = s[i]
  OBVIOUS
<1> HIDE DEF t
<1>4. Sorted(t)
  <2> SUFFICES ASSUME NEW i \in DOMAIN t, NEW j \in DOMAIN t, i <= j PROVE t[j] <= t[i]
    BY DEF Sorted
  <2>1. DOMAIN s = 1..Len(s)
    OBVIOUS
  <2>2. t[i] \in Nat
    BY <1>0, <1>2 DEF Ages
  <2>3. CASE j = Len(s) + 1
    BY <1>3, <2>2, <2>3
  <2>4. CASE j # Len(s) + 1
    BY <1>2, <1>3, <2>1, <2>4 DEF Sorted
  <2> QED
    BY <2>3, <2>4
<1> DEFINE r == SubSeq(t, k, Len(s) + 1)
<1>5. Len(r) = Len(s) + 2 - k /\ DOMAIN r = 1..Len(s) + 2 - k /\ r \in Seq(Ages)
  BY <1>2
<1>6. \A i \in DOMAIN r : r[i] = t[i + k - 1] /\ i + k - 1 \in DOMAIN t
  BY <1>2, <1>5
<1> HIDE DEF r
<1>7. Sorted(r)
  BY <1>2, <1>4, <1>5, <1>6 DEF Sorted
<1>8. ASSUME NEW n \in 0..Len(s), \A i \in DOMAIN s : i > Len(s) - n => s[i] = 0
      PROVE n + 1 <= Len(r) /\ \A i \in DOMAIN r : i > Len(r) - (n + 1) => r[i] = 0
  <2>1. \A i \in DOMAIN t : i > Len(t) - (n + 1) => t[i] = 0
    BY <1>2, <1>3, <1>8
  <2>2. k <= Len(s) + 1 - n
    <3>1. SUFFICES ASSUME k - 1 >= Len(s) + 1 - n PROVE FALSE
      BY <1>2
    <3>2. k - 1 \in DOMAIN t /\ k - 1 > Len(t) - (n + 1) /\ k - 1 \in 1..k - 1
      BY <1>2, <3>1
    <3>3. t[k - 1] = 0 /\ t[k - 1] > Window
      BY <1>1, <2>1, <3>2
    <3> QED
      BY <1>0, <3>3
  <2> QED
    BY <1>2, <1>5, <1>6, <2>1, <2>2
<1>9. ASSUME Len(r) = Len(s) + 1 PROVE \A i \in DOMAIN s : s[i] <= Window
  <2>1. k = 1
    BY <1>2, <1>5, <1>9
  <2> TAKE i \in DOMAIN s
  <2>2. i \in DOMAIN t /\ 1 \in DOMAIN t /\ 1 <= i /\ t[i] = s[i]
    BY <1>2, <1>3
  <2>3. t[i] \in Ages /\ t[1] \in Ages
    BY <1>2, <2>2
  <2>4. t[1] <= Window
    BY <1>1, <2>1
  <2>5. t[i] <= t[1]
    BY <1>4, <2>2 DEF Sorted
  <2> QED
    BY <1>0, <2>2, <2>3, <2>4, <2>5 DEF Ages
<1>10. Recorded(s) = r
  BY <1>1 DEF r
<1>11. Len(r) \in 1..Len(s) + 1
  BY <1>2, <1>5
<1> QED
  BY <1>5, <1>7, <1>8, <1>9, <1>10, <1>11

\* The errors of the window are no more than the tracker holds.
LEMMA WindowSize ==
  ASSUME NEW s \in Seq(Ages)
  PROVE /\ Cardinality(InWindow(s)) \in 0..Len(s)
        /\ (\A i \in DOMAIN s : s[i] <= Window) => Cardinality(InWindow(s)) = Len(s)
<1>1. DOMAIN s = 1..Len(s) /\ Len(s) \in Nat /\ InWindow(s) \subseteq 1..Len(s)
  BY DEF InWindow
<1>2. IsFiniteSet(1..Len(s)) /\ Cardinality(1..Len(s)) = Len(s)
  <2>1. 1 \in Int /\ Len(s) \in Int
    BY <1>1
  <2>2. IsFiniteSet(1..Len(s)) /\ Cardinality(1..Len(s)) = IF 1 > Len(s) THEN 0 ELSE Len(s) - 1 + 1
    BY <2>1, FS_Interval
  <2> QED
    BY <1>1, <2>2
<1>3. IsFiniteSet(InWindow(s)) /\ Cardinality(InWindow(s)) <= Len(s)
  BY <1>1, <1>2, FS_Subset
<1>4. Cardinality(InWindow(s)) \in Nat
  BY <1>3, FS_CardinalityType
<1>5. (\A i \in DOMAIN s : s[i] <= Window) => InWindow(s) = 1..Len(s)
  BY <1>1 DEF InWindow
<1> QED
  BY <1>1, <1>2, <1>3, <1>4, <1>5

-----------------------------------------------------------------------------
\* The two session loops.

LoopsInv == LoopsOK /\ StartsQuiet /\ TrackerOK /\ LostOK /\ ClocksOK /\ HungOK
LoopInv == LoopsInv /\ SwitchesOK /\ QueueOK

\* The constants are numbers, with room for a reset in a lost frame.
LEMMA Numbers ==
  /\ HeartbeatTimeout \in Nat \ {0} /\ Window \in Nat /\ Threshold \in Nat /\ BodyWords \in Nat
  /\ EvtCap \in Nat /\ MaxQueued \in Nat /\ MaxSwitches \in Nat /\ MaxHangs \in Nat /\ MaxCuts \in Nat
  /\ BodyWords > Threshold
  BY LinkAssumption, BodyAssumption

\* Making and joining the pipes.
LEMMA LoopJoining ==
  ASSUME PairInv, LoopInv, CreateCmd \/ CreateEvt \/ Join PROVE LoopsInv'
<1>1. UNCHANGED <<pc, hung, loopVars, wire, readVars, sessVars, outVars, faultVars>>
  BY DEF CreateCmd, CreateEvt, Join
<1>2. evt'.st # "open" \/ evt' = evt
  BY DEF CreateCmd, CreateEvt, Join, pipeVars, Listening
<1>3. Joined(evt) => Joined(evt')
  BY DEF CreateCmd, CreateEvt, Join, pipeVars, PairInv, PipesOK, Joined, Gone
<1>4. (LoopsOK /\ TrackerOK)'
  BY <1>1 DEF LoopInv, LoopsInv, LoopsOK, TrackerOK, loopVars, readVars, sessVars, outVars, faultVars
<1>5. StartsQuiet'
  BY <1>1, <1>3 DEF LoopInv, LoopsInv, StartsQuiet, Quiet, loopVars, readVars, sessVars, outVars, Joined
<1>6. (LostOK /\ ClocksOK /\ HungOK)'
  BY <1>1, <1>2 DEF LoopInv, LoopsInv, LostOK, Lost, ClocksOK, HungOK, loopVars, readVars, sessVars, outVars, faultVars
<1> QED
  BY <1>4, <1>5, <1>6 DEF LoopInv, LoopsInv

\* The end of a session leaves nothing behind but what the dock has queued.
LEMMA LoopReset ==
  ASSUME PairInv, LoopInv, Reset PROVE LoopsInv'
<1> USE Numbers DEF Reset, Drop, Gone
<1>1. LoopsOK'
  <2>1. hs' \in BOOLEAN /\ push' \in BOOLEAN
    BY Zenon
  <2>2. hung' \in [Clients -> BOOLEAN] /\ hangs' \in 0..MaxHangs /\ cuts' \in Nat
    BY DEF LoopInv, LoopsInv, LoopsOK, faultVars
  <2>4. q' \in 0..MaxQueued
    BY DEF LoopInv, LoopsInv, LoopsOK, QueueOK, InFlight
  <2>3. at' = "open" /\ sent' = 0 /\ since' = 0 /\ batch' = 0 /\ wire' = Empty /\ rd' = "aligned"
        /\ words' = 0 /\ age' = 0 /\ owed' = 0 /\ backlog' = 0
    OBVIOUS
  <2> HIDE DEF Reset
  <2> QED
    BY <2>1, <2>2, <2>3, <2>4 DEF LoopsOK
<1>2. TrackerOK'
  BY DEF TrackerOK, Sorted
<1>3. (StartsQuiet /\ LostOK /\ ClocksOK)'
  BY DEF StartsQuiet, Quiet, LostOK, ClocksOK
<1>4. HungOK'
  BY DEF HungOK, LoopInv, LoopsInv, PairInv, PipesOK
<1> QED
  BY <1>1, <1>2, <1>3, <1>4 DEF LoopInv, LoopsInv

\* The client of the session exits, and its loop with it.
LEMMA LoopExit ==
  ASSUME PairInv, LoopInv, NEW c \in Clients, Exit(c), evt.by = c PROVE LoopsInv'
<1> USE Numbers
<1>1. evt'.st = "closed" /\ hung' = [hung EXCEPT ![c] = FALSE] /\ pc' = [pc EXCEPT ![c] = "off"]
  BY DEF Exit, Closed, PairInv, PipesOK, Pipe
<1>2. UNCHANGED <<q, wire, readVars, sessVars, owed, push, faultVars>>
      /\ at' = "open" /\ sent' = 0 /\ since' = 0 /\ batch' = 0 /\ backlog' = 0
  BY DEF Exit
<1>3. LoopsOK'
  <2>1. hung' \in [Clients -> BOOLEAN]
    BY <1>1 DEF LoopInv, LoopsInv, LoopsOK
  <2> QED
    BY <1>2, <2>1 DEF LoopInv, LoopsInv, LoopsOK, readVars, sessVars, faultVars
<1>4. TrackerOK'
  BY <1>2 DEF LoopInv, LoopsInv, TrackerOK, sessVars
<1>5. HungOK'
  BY <1>1 DEF LoopInv, LoopsInv, LoopsOK, HungOK, PairInv, PipesOK
<1> QED
  BY <1>1, <1>3, <1>4, <1>5 DEF LoopsInv, StartsQuiet, Joined, LostOK, ClocksOK

\* Opening the pipes, and closing those no session has.
LEMMA LoopWorker ==
  ASSUME PairInv, LoopInv, NEW c \in Clients, WorkerMoves(c), ~(Exit(c) /\ evt.by = c) PROVE LoopsInv'
<1>1. UNCHANGED <<loopVars, wire, readVars, sessVars, outVars, faultVars>>
  BY DEF WorkerMoves, OpenCmd, OpenEvt, Notice, Exit, Launch, loopVars, outVars
<1>2. (LoopsOK /\ TrackerOK)'
  <2>1. hung' \in [Clients -> BOOLEAN]
    BY DEF WorkerMoves, OpenCmd, OpenEvt, Notice, Exit, Launch, LoopInv, LoopsInv, LoopsOK
  <2> QED
    BY <1>1, <2>1 DEF LoopInv, LoopsInv, LoopsOK, TrackerOK, loopVars, readVars, sessVars, outVars, faultVars
<1>3. StartsQuiet'
  <2>1. ~Joined(evt') => ~Joined(evt)
    BY DEF WorkerMoves, OpenCmd, OpenEvt, Notice, Exit, Launch, pipeVars, Joined, Closed, PairInv, PipesOK, Pipe
  <2> QED
    BY <1>1, <2>1 DEF LoopInv, LoopsInv, StartsQuiet, Quiet, loopVars, readVars, sessVars, outVars, Joined
<1>4. (evt'.st = "open" => evt' = evt) \/ (evt.st = "listening" /\ evt' = [st |-> "open", by |-> c] /\ ~hung'[c])
  BY DEF WorkerMoves, OpenCmd, OpenEvt, Notice, Exit, Launch, pipeVars, Closed, LoopInv, LoopsInv, HungOK, PairInv, PipesOK, Pipe
<1>5. (LostOK /\ ClocksOK)'
  <2>1. CASE Quiet
    BY <1>1, <2>1 DEF Quiet, LostOK, ClocksOK, Empty, loopVars, readVars, sessVars, outVars
  <2>2. CASE ~Quiet
    BY <1>1, <1>4, <2>2 DEF LoopInv, LoopsInv, StartsQuiet, Joined, LostOK, Lost, ClocksOK, loopVars, readVars, sessVars, outVars
  <2> QED
    BY <2>1, <2>2
<1>6. HungOK'
  <2>1. \A d \in Clients : hung'[d] => pc'[d] \in {"up", "broken"}
    BY DEF WorkerMoves, OpenCmd, OpenEvt, Notice, Exit, Launch, LoopInv, LoopsInv, HungOK, LoopsOK, PairInv, PipesOK
  <2>2. evt'.st = "open" /\ hung'[evt'.by] => evt' = evt /\ hung[evt.by]
    BY <1>4 DEF WorkerMoves, OpenCmd, OpenEvt, Notice, Exit, Launch, pipeVars, PairInv, PipesOK, HoldersOK, Pipe, Closed, LoopInv, LoopsInv, LoopsOK, Joined
  <2> QED
    BY <1>1, <2>1, <2>2 DEF LoopInv, LoopsInv, HungOK, loopVars, readVars, sessVars, outVars, faultVars
<1> QED
  BY <1>2, <1>3, <1>5, <1>6 DEF LoopInv, LoopsInv

\* What the steps of a session that goes on have in common.
LEMMA SessionCommon ==
  ASSUME PairInv, LoopInv, Apart, srv = "session", UNCHANGED <<hung, loopVars, hangs>>, wire' \in {wire, Empty}
  PROVE StartsQuiet' /\ HungOK'
<1>1. StartsQuiet'
  BY DEF Apart, PairInv, PipesOK, StartsQuiet, Joined
<1>2. HungOK'
  BY DEF Apart, LoopInv, LoopsInv, HungOK, loopVars
<1> QED
  BY <1>1, <1>2

LEMMA LoopReads ==
  ASSUME PairInv, LoopInv, Apart, SwitchStep \/ WriteFrame \/ StatusPush \/ ReadLength \/ CutRead PROVE LoopsInv'
<1> USE Numbers DEF Apart
<1>1. UNCHANGED <<hung, loopVars, wire, hs, age, recent, hangs>> /\ srv = "session"
  BY DEF SwitchStep, SwitchCommand, SwitchTimeout, WriteFrame, StatusPush, ReadLength, CutRead, InSession, sessVars, End, faultVars
<1>2. StartsQuiet' /\ HungOK'
  BY <1>1, SessionCommon
<1>3. TrackerOK' /\ ClocksOK'
  BY <1>1 DEF LoopInv, LoopsInv, TrackerOK, ClocksOK, loopVars
<1>4. LoopsOK'
  <2>1. push' \in BOOLEAN
    BY Zenon DEF SwitchStep, SwitchCommand, SwitchTimeout, WriteFrame, StatusPush, ReadLength, CutRead, outVars, LoopInv, LoopsInv, LoopsOK, End
  <2>2. owed' \in 0..2 /\ backlog' \in Nat
    BY DEF SwitchStep, SwitchCommand, SwitchTimeout, WriteFrame, StatusPush, ReadLength, CutRead, outVars, LoopInv, LoopsInv, LoopsOK, End
  <2>3. cuts' \in Nat
    BY DEF SwitchStep, SwitchCommand, SwitchTimeout, WriteFrame, StatusPush, ReadLength, CutRead, faultVars, LoopInv, LoopsInv, LoopsOK, End
  <2>4. rd' \in {"aligned", "body", "lost"} /\ words' \in 0..BodyWords /\ (rd' # "aligned" => wire # Empty)
        /\ (rd' = "lost" => words' > 0)
    BY DEF SwitchStep, SwitchCommand, SwitchTimeout, WriteFrame, StatusPush, ReadLength, CutRead, readVars, LoopInv, LoopsInv, LoopsOK, End, InSession
  <2> QED
    BY <1>1, <2>1, <2>2, <2>3, <2>4 DEF LoopInv, LoopsInv, LoopsOK, loopVars
<1>5. LostOK'
  <2>1. CASE CutRead
    <3>1. Lost' = 0 /\ Len(recent) \in Nat /\ DOMAIN recent = 1..Len(recent)
      BY <2>1 DEF CutRead, Lost, LoopInv, LoopsInv, TrackerOK
    <3> QED
      BY <1>1, <3>1 DEF LostOK
  <2>2. CASE ~CutRead
    <3>1. rd' = "lost" => rd = "lost" /\ words' = words
      BY <2>2 DEF SwitchStep, SwitchCommand, SwitchTimeout, WriteFrame, StatusPush, ReadLength, readVars, End
    <3> QED
      BY <1>1, <3>1 DEF LostOK, Lost, LoopInv, LoopsInv
  <2> QED
    BY <2>1, <2>2
<1> QED
  BY <1>2, <1>3, <1>4, <1>5 DEF LoopInv, LoopsInv

\* A frame that was read whole.
LEMMA LoopBody ==
  ASSUME PairInv, LoopInv, Apart, InSession, rd = "body", wire.whole,
         \/ wire.kind = "hello" /\ Hello
         \/ wire.kind = "ping" /\ Ping
         \/ wire.kind = "status" /\ RequestStatus
         \/ wire.kind = "request" /\ (RequestStatus \/ Override)
         \/ wire.kind = "result" /\ SwitchResult
  PROVE LoopsInv'
<1> USE Numbers DEF Apart, Answered, InSession
<1>1. UNCHANGED <<hung, loopVars, words, recent, backlog, faultVars>> /\ wire' = Empty /\ rd' = "aligned" /\ owed' \in 0..2
  BY DEF Hello, Ping, RequestStatus, Override, SwitchResult, sessVars, outVars
<1>2. StartsQuiet' /\ HungOK'
  BY <1>1, SessionCommon DEF faultVars
<1>3. TrackerOK' /\ LostOK'
  BY <1>1 DEF LoopInv, LoopsInv, TrackerOK, LostOK
<1>4. age' = 0 \/ (age' = age /\ wire.kind # "ping")
  BY DEF Hello, Ping, RequestStatus, Override, SwitchResult, sessVars
<1>5. ClocksOK'
  BY <1>1, <1>4 DEF LoopInv, LoopsInv, LoopsOK, ClocksOK, loopVars
<1>6. LoopsOK'
  <2>1. push' \in BOOLEAN /\ hs' \in BOOLEAN
    BY Zenon DEF Hello, Ping, RequestStatus, Override, SwitchResult, sessVars, outVars, LoopInv, LoopsInv, LoopsOK
  <2>2. age' \in 0..HeartbeatTimeout
    BY <1>4 DEF LoopInv, LoopsInv, LoopsOK
  <2> QED
    BY <1>1, <2>1, <2>2 DEF LoopInv, LoopsInv, LoopsOK, loopVars, faultVars
<1> QED
  BY <1>2, <1>3, <1>5, <1>6 DEF LoopInv, LoopsInv

\* A bad frame: the error is recorded and the next frame is read.
LEMMA LoopBad ==
  ASSUME PairInv, LoopInv, Apart, InSession, rd = "body", wire.kind = "bad", Error(Answered /\ UNCHANGED words)
  PROVE LoopsInv'
<1> USE Numbers DEF Apart, Answered, InSession
<1>1. UNCHANGED <<hung, loopVars, words, hs, age, push, backlog, faultVars>> /\ wire' = Empty /\ rd' = "aligned" /\ owed' = 1
      /\ recent' = Recorded(recent) /\ ~ShouldReset(recent)
  BY DEF Error, EndWithNotice, End
<1>2. StartsQuiet' /\ HungOK'
  BY <1>1, SessionCommon DEF faultVars
<1>3. TrackerOK'
  <2>1. recent \in Seq(Ages) /\ Sorted(recent)
    BY DEF LoopInv, LoopsInv, TrackerOK
  <2>2. recent' \in Seq(Ages) /\ Sorted(recent') /\ Len(recent') \in 1..Len(recent) + 1
    BY <1>1, <2>1, RecordedOK
  <2> QED
    BY <1>1, <2>1, <2>2 DEF TrackerOK, ShouldReset
<1>4. LostOK' /\ ClocksOK'
  BY <1>1 DEF LoopInv, LoopsInv, LostOK, ClocksOK, loopVars
<1>5. LoopsOK'
  BY <1>1 DEF LoopInv, LoopsInv, LoopsOK, loopVars, faultVars
<1> QED
  BY <1>2, <1>3, <1>4, <1>5 DEF LoopInv, LoopsInv

\* A word taken for a length: as long as the session goes on there are words left.
LEMMA LoopMisread ==
  ASSUME PairInv, LoopInv, Apart, Misread
  PROVE /\ LoopsInv'
        /\ evt.st = "open" => rd' = "lost" /\ words' = words - 1 /\ wire' = wire /\ Lost + 1 <= Threshold
<1> USE Numbers DEF Apart, InSession
<1>1. /\ UNCHANGED <<hung, loopVars, hs, age, push, backlog, faultVars>> /\ owed' = 1
      /\ recent' = Recorded(recent) /\ ~ShouldReset(recent)
      /\ words' = words - 1
      /\ wire' = IF words = 1 THEN Empty ELSE wire
      /\ rd' = IF words = 1 THEN "aligned" ELSE "lost"
      /\ srv = "session" /\ rd = "lost"
  BY DEF Misread, Error, EndWithNotice, End
<1>2. StartsQuiet' /\ HungOK'
  BY <1>1, SessionCommon DEF faultVars
<1>3. recent \in Seq(Ages) /\ Sorted(recent) /\ Len(recent) \in Nat /\ words \in 1..BodyWords
  BY <1>1 DEF LoopInv, LoopsInv, TrackerOK, LoopsOK
<1>4. TrackerOK'
  <2>1. recent' \in Seq(Ages) /\ Sorted(recent') /\ Len(recent') \in 1..Len(recent) + 1
    BY <1>1, <1>3, RecordedOK
  <2> QED
    BY <1>1, <2>1 DEF TrackerOK, ShouldReset
<1>5. LoopsOK'
  BY <1>1, <1>3 DEF LoopInv, LoopsInv, LoopsOK, loopVars, faultVars
<1>6. CASE evt.st = "open"
  <2>1. Lost \in 0..Len(recent) /\ \A i \in DOMAIN recent : i > Len(recent) - Lost => recent[i] = 0
    BY <1>1, <1>3, <1>6 DEF LoopInv, LoopsInv, LostOK, Lost
  <2>2. /\ Lost + 1 <= Len(recent')
        /\ \A i \in DOMAIN recent' : i > Len(recent') - (Lost + 1) => recent'[i] = 0
    BY <1>1, <1>3, <2>1, RecordedOK
  <2>3. Lost + 1 <= Threshold
    BY <1>3, <1>4, <2>1, <2>2 DEF TrackerOK, Lost
  <2>4. words # 1
    BY <2>3 DEF Lost
  <2>5. rd' = "lost" /\ wire' = wire /\ Lost' = Lost + 1
    BY <1>1, <1>3, <2>4 DEF Lost
  <2>6. LostOK' /\ ClocksOK'
    BY <1>1, <2>2, <2>5 DEF LostOK, ClocksOK, LoopInv, LoopsInv, loopVars
  <2> QED
    BY <1>1, <1>2, <1>4, <1>5, <2>3, <2>5, <2>6 DEF LoopInv, LoopsInv
<1>7. CASE evt.st # "open"
  BY <1>2, <1>4, <1>5, <1>7 DEF LoopInv, LoopsInv, LostOK, ClocksOK
<1> QED
  BY <1>6, <1>7

\* The worker's own steps: only the frame being written and the loop's variables change.
LEMMA LoopWrites ==
  ASSUME PairInv, LoopInv, NEW c \in Clients,
         EndWrite(c) \/ SendOpening(c) \/ Drain(c) \/ SendPing(c) \/ SendResult(c) \/ SendShutdownNotice(c)
  PROVE LoopsInv'
<1> USE Numbers
<1>1. /\ UNCHANGED <<srv, cmd, evt, pc, hung, readVars, sessVars, outVars, faultVars>>
      /\ pc[c] = "up" /\ evt.by = c
  BY DEF EndWrite, SendOpening, Drain, SendPing, SendResult, SendShutdownNotice, Looping, pipeVars
<1>2. evt.st = "open"
  BY <1>1 DEF PairInv, HoldersOK
<1>3. wire = Empty => ~hung[c]
  BY DEF EndWrite, SendOpening, Drain, SendPing, SendResult, SendShutdownNotice, Looping
<1>4. wire # Empty => wire' # Empty /\ wire'.kind = wire.kind /\ UNCHANGED loopVars
  BY DEF EndWrite, SendOpening, Drain, SendPing, SendResult, SendShutdownNotice, Looping, LoopInv, LoopsInv, LoopsOK, Empty
<1>5. StartsQuiet' /\ TrackerOK'
  BY <1>1, <1>2 DEF LoopInv, LoopsInv, StartsQuiet, Joined, TrackerOK, sessVars
<1>6. LostOK'
  BY <1>1 DEF LoopInv, LoopsInv, LostOK, Lost, readVars, sessVars
<1>7. HungOK'
  BY <1>1, <1>3, <1>4 DEF LoopInv, LoopsInv, HungOK, faultVars, loopVars
<1>8. ClocksOK'
  <2>1. CASE wire # Empty
    BY <1>1, <1>4, <2>1 DEF LoopInv, LoopsInv, ClocksOK, sessVars, loopVars
  <2>2. CASE wire = Empty
    <3>1. age <= since /\ age \in Nat
      BY <1>2, <2>2 DEF LoopInv, LoopsInv, ClocksOK, Empty, LoopsOK
    <3>2. since' = since \/ wire'.kind = "ping"
      BY <2>2 DEF EndWrite, SendOpening, Drain, SendPing, SendResult, SendShutdownNotice, Begin, loopVars
    <3> QED
      BY <1>1, <3>1, <3>2 DEF ClocksOK, sessVars
  <2> QED
    BY <2>1, <2>2
<1>9. LoopsOK'
  <2>1. wire' \in [kind: Kinds, whole: BOOLEAN] \cup {Empty}
    <3>1. CASE EndWrite(c)
      BY <3>1 DEF EndWrite, LoopInv, LoopsInv, LoopsOK
    <3>2. CASE ~EndWrite(c)
      <4>1. wire' = Empty \/ \E k \in Kinds : Begin(k)
        <5>1. {"hello", "old", "status", "request", "result", "ping", "bad", "bye"} \subseteq Kinds
          BY DEF Kinds
        <5>2. CASE SendOpening(c)
          BY <5>1, <5>2, Zenon DEF SendOpening, Looping
        <5>3. CASE Drain(c)
          BY <5>1, <5>3, Zenon DEF Drain, Looping
        <5>4. CASE SendPing(c) \/ SendResult(c) \/ SendShutdownNotice(c)
          BY <5>1, <5>4, Zenon DEF SendPing, SendResult, SendShutdownNotice, Looping
        <5> QED
          BY <3>2, <5>2, <5>3, <5>4
      <4>2. \A k \in Kinds : [kind |-> k, whole |-> FALSE] \in [kind: Kinds, whole: BOOLEAN]
        BY Zenon
      <4> QED
        BY <4>1, <4>2, Zenon DEF Begin
    <3> QED
      BY <3>1, <3>2
  <2>2. /\ at' \in {"open", "drain", "beat", "read"} /\ sent' \in 0..2 /\ since' \in 0..HeartbeatTimeout
        /\ q' \in 0..MaxQueued /\ batch' \in 0..MaxQueued /\ (batch' > 0 => at' = "drain")
    <3>1. CASE EndWrite(c) \/ SendResult(c) \/ SendShutdownNotice(c)
      BY <3>1 DEF EndWrite, SendResult, SendShutdownNotice, LoopInv, LoopsInv, LoopsOK, loopVars
    <3>2. CASE SendOpening(c)
      BY <3>2 DEF SendOpening, Looping, LoopInv, LoopsInv, LoopsOK
    <3>3. CASE Drain(c)
      BY <3>3 DEF Drain, Looping, LoopInv, LoopsInv, LoopsOK
    <3>4. CASE SendPing(c)
      BY <3>4 DEF SendPing, Looping, LoopInv, LoopsInv, LoopsOK
    <3> QED
      BY <3>1, <3>2, <3>3, <3>4
  <2>3. rd # "aligned" => wire' # Empty
    BY <1>4 DEF LoopInv, LoopsInv, LoopsOK
  <2> QED
    BY <1>1, <2>1, <2>2, <2>3 DEF LoopInv, LoopsInv, LoopsOK, readVars, sessVars, outVars, faultVars
<1> QED
  BY <1>5, <1>6, <1>7, <1>8, <1>9 DEF LoopInv, LoopsInv

\* A frame is handled, in time or not.
LEMMA LoopHandles ==
  ASSUME PairInv, LoopInv, NEW c \in Clients, TryReadFrame(c) \/ Hang(c) \/ Wake(c)
  PROVE LoopsInv'
<1> USE Numbers
<1>1. UNCHANGED <<srv, cmd, evt, pc, sent, since, q, batch, wire, readVars, sessVars, owed, push, cuts>>
  BY DEF TryReadFrame, Hang, Wake, pipeVars, loopVars, outVars, faultVars
<1>2. CASE TryReadFrame(c) \/ Hang(c)
  <2>1. evt = [st |-> "open", by |-> c] /\ at = "read" /\ at' = "open" /\ wire = Empty /\ pc[c] = "up"
    BY <1>2 DEF TryReadFrame, Hang, Looping, PairInv, HoldersOK
  <2>2. batch = 0
    BY <2>1 DEF LoopInv, LoopsInv, LoopsOK
  <2>3. backlog' \in Nat
    BY <1>2 DEF TryReadFrame, Hang, LoopInv, LoopsInv, LoopsOK
  <2>4. hung' \in [Clients -> BOOLEAN] /\ \A d \in Clients : d # c => hung'[d] = hung[d]
    BY <1>2 DEF TryReadFrame, Hang, LoopInv, LoopsInv, LoopsOK
  <2>5. hangs' \in 0..MaxHangs /\ ((hung' = hung /\ hangs' = hangs) \/ hangs' > 0)
    BY <1>2 DEF TryReadFrame, Hang, LoopInv, LoopsInv, LoopsOK, faultVars
  <2>6. LoopsOK'
    BY <1>1, <2>1, <2>2, <2>3, <2>4, <2>5 DEF LoopInv, LoopsInv, LoopsOK, readVars, sessVars
  <2>7. StartsQuiet' /\ TrackerOK' /\ LostOK' /\ ClocksOK'
    BY <1>1, <2>1 DEF LoopInv, LoopsInv, StartsQuiet, Joined, TrackerOK, LostOK, Lost, ClocksOK, readVars, sessVars
  <2>8. HungOK'
    BY <1>1, <2>1, <2>2, <2>4, <2>5 DEF LoopInv, LoopsInv, HungOK
  <2> QED
    BY <2>6, <2>7, <2>8 DEF LoopInv, LoopsInv
<1>3. CASE Wake(c)
  <2>1. hung' \in [Clients -> BOOLEAN] /\ \A d \in Clients : hung'[d] => hung[d]
    BY <1>3 DEF Wake, LoopInv, LoopsInv, LoopsOK
  <2>2. UNCHANGED <<at, backlog, hangs>>
    BY <1>3 DEF Wake, loopVars, outVars, faultVars
  <2>3. LoopsOK'
    BY <1>1, <2>1, <2>2 DEF LoopInv, LoopsInv, LoopsOK, readVars, sessVars
  <2>4. StartsQuiet' /\ TrackerOK' /\ LostOK' /\ ClocksOK'
    BY <1>1, <2>2 DEF LoopInv, LoopsInv, StartsQuiet, Quiet, Joined, TrackerOK, LostOK, Lost, ClocksOK, readVars, sessVars
  <2>5. evt.st = "open" => evt.by \in Clients
    BY DEF PairInv, PipesOK, Joined
  <2>6. HungOK'
    BY <1>1, <2>1, <2>2, <2>5 DEF LoopInv, LoopsInv, HungOK
  <2> QED
    BY <2>3, <2>4, <2>6 DEF LoopInv, LoopsInv
<1> QED
  BY <1>2, <1>3

\* Time and the dock.
LEMMA LoopTime ==
  ASSUME PairInv, LoopInv, Second \/ Ask \/ PostSwitch PROVE LoopsInv'
<1> USE Numbers
<1>1. UNCHANGED <<srv, cmd, evt, pc, hung, at, sent, batch, wire, readVars, hs, owed, backlog, faultVars>>
  BY DEF Second, Ask, PostSwitch, pipeVars, outVars, sessVars, loopVars
<1>2. CASE Ask \/ PostSwitch
  <2>1. UNCHANGED <<since, age, recent, push>> /\ q' \in 0..MaxQueued
    BY <1>2 DEF Ask, PostSwitch, InFlight, loopVars, sessVars, outVars, LoopInv, LoopsInv, LoopsOK
  <2>2. LoopsOK'
    BY <1>1, <2>1 DEF LoopInv, LoopsInv, LoopsOK, readVars, faultVars
  <2>3. StartsQuiet' /\ TrackerOK' /\ LostOK' /\ ClocksOK' /\ HungOK'
    BY <1>1, <2>1 DEF LoopInv, LoopsInv, StartsQuiet, Quiet, Joined, TrackerOK, LostOK, Lost, ClocksOK, HungOK, readVars, faultVars
  <2> QED
    BY <2>2, <2>3 DEF LoopInv, LoopsInv
<1>3. CASE Second
  <2>1. Joined(evt)
    BY <1>3 DEF Second, InSession, PairInv, PipesOK
  <2>2. evt.st = "open" => wire = Empty
    BY <1>3 DEF Second, Settled, LoopInv, LoopsInv, HungOK
  <2>3. LoopsOK'
    <3>1. push' \in BOOLEAN
      BY <1>3, Zenon DEF Second
    <3>2. age' \in 0..HeartbeatTimeout /\ since' \in 0..HeartbeatTimeout /\ q' = q
      BY <1>3 DEF Second, LoopInv, LoopsInv, LoopsOK
    <3> QED
      BY <1>1, <3>1, <3>2 DEF LoopInv, LoopsInv, LoopsOK, readVars, faultVars
  <2>4. TrackerOK'
    <3>1. recent \in Seq(Ages) /\ Sorted(recent) /\ Len(recent) <= Threshold
      BY DEF LoopInv, LoopsInv, TrackerOK
    <3>2. \A a \in Ages : Older(a) \in Ages
      BY DEF Ages, Older
    <3>3. \A a, b \in Ages : a <= b => Older(a) <= Older(b)
      BY DEF Ages, Older
    <3>4. DOMAIN recent = 1..Len(recent) /\ \A i \in DOMAIN recent : recent[i] \in Ages
      BY <3>1
    <3>5. recent' = [i \in DOMAIN recent |-> Older(recent[i])]
      BY <1>3 DEF Second
    <3> HIDE DEF Ages
    <3>6. recent' \in Seq(Ages) /\ Len(recent') = Len(recent)
      BY <3>1, <3>2, <3>4, <3>5
    <3>7. Sorted(recent')
      BY <3>1, <3>3, <3>4, <3>5 DEF Sorted
    <3> QED
      BY <3>1, <3>6, <3>7 DEF TrackerOK
  <2>5. LostOK'
    BY <1>1, <2>2 DEF LostOK, LoopInv, LoopsInv, LoopsOK, readVars
  <2>6. ClocksOK'
    <3> SUFFICES ASSUME evt.st = "open" PROVE age' <= since'
      BY <1>1 DEF ClocksOK
    <3>1. age <= since
      BY <2>2 DEF LoopInv, LoopsInv, ClocksOK, Empty
    <3> QED
      BY <1>3, <3>1 DEF Second, LoopInv, LoopsInv, LoopsOK
  <2>7. StartsQuiet' /\ HungOK'
    BY <1>1, <2>1 DEF StartsQuiet, Joined, LoopInv, LoopsInv, HungOK, faultVars
  <2> QED
    BY <2>3, <2>4, <2>5, <2>6, <2>7 DEF LoopInv, LoopsInv
<1> QED
  BY <1>2, <1>3

LEMMA LoopsStep == PairInv /\ LoopInv /\ [Next]_vars => LoopsInv'
<1> SUFFICES ASSUME PairInv, LoopInv, [Next]_vars PROVE LoopsInv'
  OBVIOUS
<1>1. CASE Reset
  BY <1>1, LoopReset
<1>2. CASE UNCHANGED vars
  BY <1>2 DEF vars, pipeVars, loopVars, readVars, sessVars, outVars, faultVars, LoopInv, LoopsInv, LoopsOK, StartsQuiet, Quiet,
       TrackerOK, LostOK, Lost, ClocksOK, HungOK, Joined
<1>3. ASSUME Apart, Misread \/ ReadBody \/ Silent \/ ReadEof PROVE LoopsInv'
  <2>1. srv' = "session"
    BY <1>3 DEF Apart, Misread, ReadBody, Silent, ReadEof, InSession
  <2>2. ~End /\ ~EndWithNotice
    BY <2>1 DEF End, EndWithNotice
  <2>3. CASE ReadBody
    <3>1. InSession /\ rd = "body" /\ wire.whole
      BY <2>3 DEF ReadBody
    <3> QED
      BY <1>3, <2>2, <2>3, <3>1, LoopBody, LoopBad DEF ReadBody
  <2> QED
    BY <1>3, <2>2, <2>3, LoopMisread DEF Silent, ReadEof
<1>4. CASE SwitchStep \/ WriteFrame \/ StatusPush \/ Silent \/ ReadLength \/ Misread \/ ReadBody \/ ReadEof \/ PipeError \/ CutRead
  <2>1. Reset \/ Apart
    BY <1>4, SessionMoves
  <2>2. PipeError => Reset
    BY DEF PipeError, Reset
  <2> QED
    BY <1>1, <1>3, <1>4, <2>1, <2>2, LoopReads
<1>5. CASE ServerStep
  BY <1>4, <1>5, LoopJoining DEF ServerStep
<1>6. CASE Second \/ Ask \/ PostSwitch
  BY <1>6, LoopTime
<1>7. ASSUME NEW c \in Clients, ClientStep(c) \/ SendResult(c) \/ SendShutdownNotice(c) \/ Hang(c) \/ Wake(c) \/ Exit(c) \/ Launch(c)
      PROVE LoopsInv'
  BY <1>7, LoopExit, LoopWorker, LoopWrites, LoopHandles DEF ClientStep, WorkerMoves
<1> QED
  BY <1>2, <1>4, <1>5, <1>6, <1>7 DEF Next

\* The switches, whoever moves them.
LEMMA SwitchesStep == PairInv /\ LoopInv /\ [Next]_vars => SwitchesOK'
<1> SUFFICES ASSUME PairInv, LoopInv, [Next]_vars PROVE SwitchesOK'
  OBVIOUS
<1> USE Numbers
<1>1. SwitchesOK /\ (srv = "session" => Joined(evt))
  BY DEF LoopInv, PairInv, PipesOK
<1>2. CASE Reset
  BY <1>2 DEF Reset, Drop, SwitchesOK
<1>3. ASSUME UNCHANGED switchVars, Joined(evt) => Joined(evt') PROVE SwitchesOK'
  BY <1>1, <1>3 DEF SwitchesOK, switchVars, Joined
<1>4. ASSUME Apart, SwitchStep \/ PostSwitch PROVE SwitchesOK'
  BY <1>1, <1>4 DEF Apart, SwitchStep, SwitchCommand, SwitchTimeout, PostSwitch, InSession, SwitchesOK, Joined
<1>5. CASE SwitchStep
  BY <1>5, <1>4 DEF SwitchStep, SwitchCommand, SwitchTimeout, Apart, pipeVars
<1>6. CASE PostSwitch
  BY <1>6, <1>4 DEF PostSwitch, Apart, pipeVars
<1>7. ASSUME NEW c \in Clients, Wake(c) PROVE SwitchesOK'
  BY <1>1, <1>7 DEF Wake, SwitchesOK, Joined, pipeVars
<1>8. CASE WriteFrame \/ StatusPush \/ Silent \/ ReadLength \/ ReadEof \/ PipeError \/ CutRead \/ Misread \/ ReadBody
  <2>1. Reset \/ Apart
    BY <1>8, SessionMoves
  <2> SUFFICES ASSUME Apart PROVE SwitchesOK'
    BY <1>2, <2>1
  <2>2. (Joined(evt) => Joined(evt'))
    BY DEF Apart
  <2>3. PipeError => Reset
    BY DEF PipeError, Reset
  <2>4. ASSUME End \/ EndWithNotice, srv = "session" PROVE FALSE
    BY <2>4 DEF End, EndWithNotice, Apart
  <2>5. CASE WriteFrame \/ StatusPush \/ Silent \/ ReadLength \/ ReadEof \/ CutRead
    <3>1. UNCHANGED switchVars
      BY <2>4, <2>5 DEF WriteFrame, StatusPush, Silent, ReadLength, ReadEof, CutRead, InSession
    <3> QED
      BY <1>3, <2>2, <3>1
  <2>6. CASE Misread
    <3>1. UNCHANGED switchVars
      BY <2>4, <2>6 DEF Misread, Error, InSession
    <3> QED
      BY <1>3, <2>2, <3>1
  <2>7. CASE ReadBody
    <3>1. CASE SwitchResult
      <4>1. bus' = bus /\ burst' = burst /\ evt' = evt /\ (pending' = pending \/ (pending > 0 /\ pending' = pending - 1))
        BY <3>1 DEF SwitchResult, Apart
      <4> QED
        BY <1>1, <4>1 DEF SwitchesOK, Joined
    <3>2. CASE ~SwitchResult
      <4>1. UNCHANGED switchVars
        BY <2>4, <2>7, <3>2 DEF ReadBody, Hello, Ping, RequestStatus, Override, Error, InSession
      <4> QED
        BY <1>3, <2>2, <4>1
    <3> QED
      BY <3>1, <3>2
  <2> QED
    BY <1>2, <1>8, <2>3, <2>5, <2>6, <2>7
<1>9. CASE CreateCmd \/ CreateEvt \/ Join \/ Second \/ Ask \/ UNCHANGED vars
  BY <1>3, <1>9 DEF CreateCmd, CreateEvt, Join, Second, Ask, vars, pipeVars, PairInv, PipesOK, Joined, Gone
<1>10. ASSUME NEW c \in Clients, ClientStep(c) \/ SendResult(c) \/ SendShutdownNotice(c) \/ Hang(c) \/ Exit(c) \/ Launch(c)
       PROVE SwitchesOK'
  <2>1. UNCHANGED switchVars
    BY <1>10 DEF ClientStep, OpenCmd, OpenEvt, Notice, EndWrite, SendOpening, Drain, SendPing, TryReadFrame, SendResult,
         SendShutdownNotice, Hang, Exit, Launch, switchVars
  <2>2. Joined(evt) => Joined(evt')
    BY <1>10 DEF ClientStep, OpenCmd, OpenEvt, Notice, EndWrite, SendOpening, Drain, SendPing, TryReadFrame, SendResult,
         SendShutdownNotice, Hang, Exit, Launch, pipeVars, Joined, Closed, PairInv, PipesOK, Pipe
  <2> QED
    BY <1>3, <2>1, <2>2
<1> QED
  BY <1>5, <1>6, <1>7, <1>8, <1>9, <1>10 DEF Next, ServerStep

\* Requests only move between the queue, the batch and the frame being written.
LEMMA QueueStep == PairInv /\ LoopInv /\ [Next]_vars => QueueOK'
<1> SUFFICES ASSUME PairInv, LoopInv, [Next]_vars PROVE QueueOK'
  OBVIOUS
<1> USE Numbers
<1>1. q \in Nat /\ batch \in Nat /\ QueueOK
  BY DEF LoopInv, LoopsInv, LoopsOK
<1>2. CASE Reset
  <2>1. InFlight \in Nat /\ batch <= InFlight
    BY <1>1 DEF InFlight
  <2>2. (q' = q + batch \/ q' = q + InFlight) /\ batch' = 0 /\ wire' = Empty
    BY <1>2 DEF Reset, Drop
  <2>3. InFlight' = 0
    BY <2>2 DEF InFlight, Empty
  <2> QED
    BY <1>1, <2>1, <2>2, <2>3 DEF QueueOK
<1>3. ASSUME UNCHANGED <<q, batch>>, wire' \in {wire, Empty} \/ wire'.kind = wire.kind PROVE QueueOK'
  BY <1>1, <1>3 DEF QueueOK, InFlight, Empty
<1>4. CASE SwitchStep \/ WriteFrame \/ StatusPush \/ Silent \/ ReadLength \/ Misread \/ ReadBody \/ ReadEof \/ PipeError \/ CutRead
  <2>1. Reset \/ Apart
    BY <1>4, SessionMoves
  <2> SUFFICES ASSUME Apart PROVE QueueOK'
    BY <1>2, <2>1
  <2>2. PipeError => Reset
    BY DEF PipeError, Reset
  <2>3. ASSUME End \/ EndWithNotice, srv = "session" PROVE FALSE
    BY <2>3 DEF End, EndWithNotice, Apart
  <2>4. CASE SwitchStep \/ WriteFrame \/ StatusPush \/ Silent \/ ReadLength \/ ReadEof \/ CutRead
    <3>1. UNCHANGED <<q, batch, wire>>
      BY <2>3, <2>4 DEF SwitchStep, SwitchCommand, SwitchTimeout, WriteFrame, StatusPush, Silent, ReadLength, ReadEof, CutRead,
           InSession, loopVars
    <3> QED
      BY <1>3, <3>1
  <2>5. CASE Misread \/ ReadBody
    <3>1. UNCHANGED <<q, batch>> /\ wire' \in {wire, Empty}
      BY <2>3, <2>5 DEF Misread, ReadBody, Hello, Ping, RequestStatus, Override, SwitchResult, Error, Answered, InSession, loopVars
    <3> QED
      BY <1>3, <3>1
  <2> QED
    BY <1>2, <1>4, <2>2, <2>4, <2>5
<1>5. CASE CreateCmd \/ CreateEvt \/ Join \/ Second \/ PostSwitch \/ UNCHANGED vars
  BY <1>3, <1>5 DEF CreateCmd, CreateEvt, Join, Second, PostSwitch, vars, loopVars
<1>6. CASE Ask
  BY <1>1, <1>6 DEF Ask, QueueOK, InFlight
<1>7. ASSUME NEW c \in Clients, OpenCmd(c) \/ OpenEvt(c) \/ Notice(c) \/ Launch(c) \/ TryReadFrame(c) \/ Hang(c) \/ Wake(c)
      PROVE QueueOK'
  BY <1>3, <1>7 DEF OpenCmd, OpenEvt, Notice, Launch, TryReadFrame, Hang, Wake, loopVars
<1>8. ASSUME NEW c \in Clients, Exit(c) PROVE QueueOK'
  BY <1>1, <1>8 DEF Exit, QueueOK, InFlight
<1>9. ASSUME NEW c \in Clients, EndWrite(c) PROVE QueueOK'
  BY <1>3, <1>9 DEF EndWrite, loopVars, LoopInv, LoopsInv, LoopsOK, Empty
<1>10. ASSUME NEW c \in Clients, SendOpening(c) PROVE QueueOK'
  <2>1. batch = 0 /\ wire = Empty /\ batch' = q /\ q' = 0
    BY <1>10 DEF SendOpening, Looping, LoopInv, LoopsInv, LoopsOK
  <2>2. wire' = wire \/ wire'.kind \in {"hello", "old", "status"}
    BY <1>10 DEF SendOpening, Begin
  <2> QED
    BY <1>1, <2>1, <2>2 DEF QueueOK, InFlight, Empty
<1>11. ASSUME NEW c \in Clients, Drain(c) PROVE QueueOK'
  <2>1. wire = Empty /\ q' = q /\ ((batch' = batch - 1 /\ wire'.kind \in {"request", "bad"}) \/ (batch' = batch /\ wire' = wire))
    BY <1>11 DEF Drain, Looping, Begin
  <2> QED
    BY <1>1, <2>1 DEF QueueOK, InFlight, Empty
<1>12. ASSUME NEW c \in Clients, SendPing(c) \/ SendResult(c) \/ SendShutdownNotice(c) PROVE QueueOK'
  <2>1. wire = Empty /\ q' = q /\ batch' = batch /\ (wire' = wire \/ wire'.kind \in {"ping", "result", "bye"})
    BY <1>12 DEF SendPing, SendResult, SendShutdownNotice, Looping, Begin, loopVars
  <2> QED
    BY <1>1, <2>1 DEF QueueOK, InFlight, Empty
<1> QED
  BY <1>4, <1>5, <1>6, <1>7, <1>8, <1>9, <1>10, <1>11, <1>12 DEF Next, ServerStep, ClientStep

LEMMA LoopStep == PairInv /\ LoopInv /\ [Next]_vars => LoopInv'
  BY LoopsStep, SwitchesStep, QueueStep DEF LoopInv

\* The loops of both sides fit: the tracker is in order, a lost frame is misread
\* with no time passing, and the core's clock is never ahead of the plugin's.
THEOREM LoopInvariant == Spec => [](PairInv /\ LoopInv)
<1>1. Init => LoopInv
  <2> SUFFICES ASSUME Init PROVE LoopInv
    OBVIOUS
  <2>1. hs \in BOOLEAN /\ push \in BOOLEAN /\ ~push
    BY Zenon DEF Init
  <2>2. /\ evt = Gone /\ pc = [c \in Clients |-> "down"] /\ hung = [c \in Clients |-> FALSE]
        /\ at = "open" /\ sent = 0 /\ since = 0 /\ q = 0 /\ batch = 0 /\ wire = Empty
        /\ rd = "aligned" /\ words = 0 /\ age = 0 /\ recent = <<>>
        /\ owed = 0 /\ backlog = 0 /\ hangs = 0 /\ cuts = 0 /\ bus = 0 /\ pending = 0 /\ burst = 0
    BY DEF Init
  <2>3. LoopsOK
    BY <2>1, <2>2, Numbers DEF LoopsOK
  <2>4. TrackerOK
    BY <2>2, Numbers DEF TrackerOK, Sorted
  <2>5. StartsQuiet /\ LostOK /\ ClocksOK /\ HungOK
    BY <2>1, <2>2 DEF StartsQuiet, Quiet, LostOK, ClocksOK, HungOK, Gone
  <2>6. SwitchesOK /\ QueueOK
    BY <2>2, Numbers DEF SwitchesOK, QueueOK, InFlight, Empty
  <2> QED
    BY <2>3, <2>4, <2>5, <2>6 DEF LoopInv, LoopsInv
<1> QED
  BY <1>1, LoopStep, PairInvariant, PTL DEF Spec

\* A session is reset as noisy exactly when one error too many falls into the window
\* (the tracker pops its front only, so this needs its order), and as silent only when
\* the plugin left or by its own clock was silent or has only just sent a ping.
THEOREM EndsAreDeserved == Spec => EndsDeserved
<1> DEFINE Deserved ==
       srv = "session" =>
         /\ srv' = "session" => Cardinality(InWindow(recent')) <= Threshold
         /\ srv' # "session" /\ (Misread \/ (ReadBody /\ wire.kind = "bad")) => Cardinality(InWindow(recent)) = Threshold
         /\ Silent => since = HeartbeatTimeout \/ wire.kind = "ping" \/ evt.st = "closed"
<1>1. ASSUME PairInv, LoopInv, LoopInv' PROVE Deserved
  <2> SUFFICES ASSUME srv = "session" PROVE Deserved
    OBVIOUS
  <2> USE Numbers
  <2>1. Cardinality(InWindow(recent')) <= Threshold
    <3>1. recent' \in Seq(Ages) /\ Len(recent') <= Threshold
      BY <1>1 DEF LoopInv, LoopsInv, TrackerOK
    <3>2. Cardinality(InWindow(recent')) \in 0..Len(recent')
      BY <3>1, WindowSize
    <3> QED
      BY <3>1, <3>2
  <2>2. ASSUME srv' # "session", Misread \/ (ReadBody /\ wire.kind = "bad")
        PROVE Cardinality(InWindow(recent)) = Threshold
    <3>1. ShouldReset(recent)
      BY <2>2 DEF Misread, ReadBody, Error
    <3>2. recent \in Seq(Ages) /\ Sorted(recent) /\ Len(recent) <= Threshold
      BY <1>1 DEF LoopInv, LoopsInv, TrackerOK
    <3>3. Len(Recorded(recent)) \in 1..Len(recent) + 1
          /\ (Len(Recorded(recent)) = Len(recent) + 1 => \A i \in DOMAIN recent : recent[i] <= Window)
      BY <3>2, RecordedOK
    <3>4. Len(recent) = Threshold /\ \A i \in DOMAIN recent : recent[i] <= Window
      BY <3>1, <3>2, <3>3 DEF ShouldReset
    <3> QED
      BY <3>2, <3>4, WindowSize
  <2>3. ASSUME Silent PROVE since = HeartbeatTimeout \/ wire.kind = "ping" \/ evt.st = "closed"
    <3>1. age = HeartbeatTimeout
      BY <1>1, <2>3 DEF Silent, LoopInv, LoopsInv, LoopsOK
    <3>2. evt.st \in {"open", "closed"}
      BY <1>1 DEF PairInv, PipesOK, Joined
    <3> QED
      BY <1>1, <3>1, <3>2 DEF LoopInv, LoopsInv, LoopsOK, ClocksOK
  <2> QED
    BY <2>1, <2>2, <2>3
<1>2. PairInv /\ LoopInv /\ LoopInv' => [Deserved]_vars
  BY <1>1
<1> HIDE DEF Deserved
<1>3. Spec => [][Deserved]_vars
  BY <1>2, LoopInvariant, PTL
<1> QED
  BY <1>3 DEF EndsDeserved, Deserved

-----------------------------------------------------------------------------
\* Room in the event pipe.

LinkInv == PairInv /\ LoopInv /\ RoomOK

\* Every hang has its share of the room.
LEMMA Shares ==
  /\ PerHang \in Nat /\ Base \in Nat
  /\ \A h \in Nat : h * PerHang \in Nat /\ (h + 1) * PerHang = h * PerHang + PerHang
  /\ \A h \in 0..MaxHangs : h * PerHang <= MaxHangs * PerHang
<1>1. PerHang \in Nat
  BY Numbers DEF PerHang
<1>4. Base \in Nat
  BY Numbers DEF Base
<1> HIDE DEF PerHang
<1>2. \A h \in Nat : h * PerHang \in Nat /\ (h + 1) * PerHang = h * PerHang + PerHang
  BY <1>1
<1>3. \A h \in 0..MaxHangs : h * PerHang <= MaxHangs * PerHang
  BY <1>1, Numbers
<1> QED
  BY <1>1, <1>2, <1>3, <1>4

Parts ==
  /\ backlog \in Nat /\ owed \in 0..2 /\ One(push) \in 0..1 /\ One(since > 0) \in 0..1 /\ batch \in 0..MaxQueued
  /\ Switches \in Nat /\ Switches <= 2 * MaxSwitches /\ burst \in 0..MaxSwitches
  /\ Opening \in 0..3 /\ InWire \in Int /\ Answers(wire.kind) \in 0..2 /\ q \in 0..MaxQueued
  /\ Coming \in Int
  /\ age \in 0..HeartbeatTimeout /\ hangs \in 0..MaxHangs
  /\ rd = "lost" /\ evt.st = "open" => InWire \in 0..Threshold

\* The parts of Coming are numbers.
LEMMA ComingParts == LoopInv => Parts
<1> SUFFICES ASSUME LoopInv PROVE Parts
  OBVIOUS
<1> USE Numbers
<1>1. One(push) \in 0..1 /\ One(since > 0) \in 0..1
  BY DEF One
<1>2. Opening \in 0..3 /\ Answers(wire.kind) \in 0..2
  BY DEF Opening, Answers, LoopInv, LoopsInv, LoopsOK
<1>3. InWire \in Int
  BY <1>2 DEF InWire, Lost, LoopInv, LoopsInv, LoopsOK
<1>4. backlog \in Nat /\ owed \in 0..2 /\ batch \in 0..MaxQueued /\ q \in 0..MaxQueued /\ age \in 0..HeartbeatTimeout
      /\ hangs \in 0..MaxHangs
  BY DEF LoopInv, LoopsInv, LoopsOK
<1>7. Switches \in Nat /\ Switches <= 2 * MaxSwitches /\ burst \in 0..MaxSwitches
  BY DEF LoopInv, SwitchesOK, Switches
<1>5. Coming \in Int
  BY <1>1, <1>2, <1>3, <1>4, <1>7 DEF Coming
<1>6. rd = "lost" /\ evt.st = "open" => InWire \in 0..Threshold
  <2>1. Len(recent) \in Nat /\ Len(recent) <= Threshold /\ words \in 0..BodyWords
    BY DEF LoopInv, LoopsInv, TrackerOK, LoopsOK
  <2> QED
    BY <2>1 DEF InWire, Lost, LoopInv, LoopsInv, LostOK
<1> QED
  BY <1>1, <1>2, <1>3, <1>4, <1>5, <1>6, <1>7 DEF Parts

LEMMA ComingPartsNext == LoopInv' => Parts'
  BY ComingParts, PTL

\* A step that brings no more frames than were coming keeps the room.
LEMMA RoomKept ==
  ASSUME LoopInv, LoopInv', RoomOK, evt' = evt, hung'[evt.by] = hung[evt.by], hangs' = hangs, rd' = "lost" <=> rd = "lost",
         evt.st = "open" => Coming' + 2 * q' <= Coming + 2 * q,
         evt.st = "open" /\ hung[evt.by] => Coming' <= Coming /\ UNCHANGED <<age, since, burst>>
  PROVE RoomOK'
<1>1. Coming \in Int /\ q \in Nat /\ hangs \in Nat /\ age \in Nat /\ One(since > 0) \in 0..1 /\ burst \in Nat
  BY ComingParts, Numbers DEF Parts
<1>2. Coming' \in Int /\ q' \in Nat
  BY ComingPartsNext, Numbers DEF Parts
<1>3. hangs * PerHang \in Int /\ (hangs - 1) * PerHang \in Int /\ Base \in Int
  BY <1>1, Shares
<1>0. \A a, b, c \in Int : a <= b /\ b <= c => a <= c
  OBVIOUS
<1>4. CASE evt.st = "open" /\ hung[evt.by]
  <2>1. Coming' <= Coming /\ Coming <= Base + (hangs - 1) * PerHang + age + One(since > 0) + 2 * burst
    BY <1>4, Zenon DEF RoomOK
  <2>2. Coming' <= Base + (hangs - 1) * PerHang + age + One(since > 0) + 2 * burst
    <3>1. Base + (hangs - 1) * PerHang + age + One(since > 0) + 2 * burst \in Int
      BY <1>1, <1>3
    <3> QED
      BY <1>0, <1>1, <1>2, <2>1, <3>1, Zenon
  <2>3. Coming' <= Base + (hangs' - 1) * PerHang + age' + One(since' > 0) + 2 * burst'
    BY <1>4, <2>2, Zenon
  <2> QED
    BY <1>4, <2>3, Zenon DEF RoomOK
<1>5. CASE evt.st = "open" /\ ~hung[evt.by]
  <2>0. PICK extra \in Nat : extra = (IF rd = "lost" THEN Threshold ELSE 0) /\ extra = (IF rd' = "lost" THEN Threshold ELSE 0)
    BY Numbers
  <2>1. Coming' + 2 * q' <= Coming + 2 * q /\ Coming + 2 * q <= Base + hangs * PerHang + extra
    BY <1>5, <2>0, Zenon DEF RoomOK
  <2>2. Coming' + 2 * q' <= Base + hangs * PerHang + extra
    <3>1. Coming' + 2 * q' \in Int
      BY <1>2
    <3>2. Coming + 2 * q \in Int
      BY <1>1
    <3>3. Base + hangs * PerHang + extra \in Int
      BY <1>3
    <3> QED
      BY <1>0, <2>1, <3>1, <3>2, <3>3, Zenon
  <2>3. Coming' + 2 * q' <= Base + hangs' * PerHang + (IF rd' = "lost" THEN Threshold ELSE 0)
    BY <2>0, <2>2, Zenon
  <2> QED
    BY <1>5, <2>3, Zenon DEF RoomOK
<1> QED
  BY <1>4, <1>5 DEF RoomOK

\* The core's steps: a frame that is written was owed, and one that is owed was coming.
LEMMA RoomServer ==
  ASSUME PairInv, LoopInv, LoopInv', RoomOK, Apart,
         \/ SwitchStep \/ WriteFrame \/ StatusPush \/ ReadLength \/ Misread
         \/ /\ InSession /\ rd = "body"
            /\ \/ wire.kind = "hello" /\ Hello
               \/ wire.kind = "ping" /\ Ping
               \/ wire.kind = "status" /\ RequestStatus
               \/ wire.kind = "request" /\ (RequestStatus \/ Override)
               \/ wire.kind = "result" /\ SwitchResult
               \/ wire.kind = "bad" /\ Error(Answered /\ UNCHANGED words)
  PROVE RoomOK'
<1> SUFFICES ASSUME evt.st = "open" PROVE RoomOK'
  BY DEF Apart, RoomOK
<1> USE Numbers
<1>1. Parts /\ Parts'
  BY ComingParts, ComingPartsNext
<1>2. srv = "session" /\ ~End /\ ~EndWithNotice
  BY DEF Apart, End, EndWithNotice, SwitchStep, SwitchCommand, SwitchTimeout, WriteFrame, StatusPush, ReadLength, Misread, InSession
<1>3. UNCHANGED <<evt, hung, loopVars, hangs, burst>>
  BY <1>2 DEF Apart, SwitchStep, SwitchCommand, SwitchTimeout, WriteFrame, StatusPush, ReadLength, Misread, Hello, Ping,
       RequestStatus, Override, SwitchResult, Error, faultVars, switchVars
<1>4. One(since > 0)' = One(since > 0) /\ Opening' = Opening /\ batch' = batch /\ q' = q
  BY <1>3 DEF loopVars, Opening
<1>5. ASSUME rd' = "lost" <=> rd = "lost",
             backlog' + owed' + One(push)' + InWire' + Switches' <= backlog + owed + One(push) + InWire + Switches,
             hung[evt.by] => age' = age
      PROVE RoomOK'
  <2>1. Coming' <= Coming
    BY <1>1, <1>4, <1>5 DEF Coming, Parts
  <2>2. Coming' + 2 * q' <= Coming + 2 * q
    <3>1. \A a, b, n \in Int : a <= b => a + 2 * n <= b + 2 * n
      OBVIOUS
    <3>2. Coming' \in Int /\ Coming \in Int /\ q \in Int
      BY <1>1 DEF Parts
    <3> QED
      BY <1>4, <2>1, <3>1, <3>2, Zenon
  <2> QED
    BY <1>3, <1>5, <2>1, <2>2, RoomKept DEF loopVars
<1>6. CASE WriteFrame
  <2>1. UNCHANGED <<rd, words, wire, push, age, bus, pending>> /\ owed' = owed - 1 /\ backlog' = backlog + 1
    BY <1>2, <1>6 DEF WriteFrame, readVars, sessVars, switchVars
  <2>2. InWire' = InWire /\ One(push)' = One(push) /\ Switches' = Switches
    BY <2>1 DEF InWire, Lost, Switches
  <2> QED
    BY <1>1, <1>5, <2>1, <2>2 DEF Parts
<1>7. CASE StatusPush
  <2>1. UNCHANGED <<rd, words, wire, age, backlog, bus, pending>> /\ owed = 0 /\ owed' = 1
    BY <1>7 DEF StatusPush, InSession, readVars, sessVars, switchVars
  <2>2. One(push) = 1 /\ One(push)' = 0
    BY <1>7, Zenon DEF StatusPush, One
  <2>3. InWire' = InWire /\ Switches' = Switches
    BY <2>1 DEF InWire, Lost, Switches
  <2> QED
    BY <1>1, <1>5, <2>1, <2>2, <2>3 DEF Parts
<1>8. CASE ReadLength
  <2>1. UNCHANGED <<wire, age, backlog, owed, push, bus, pending>> /\ rd # "lost" /\ rd' # "lost"
    BY <1>8 DEF ReadLength, outVars, sessVars, switchVars
  <2>2. InWire' = InWire /\ One(push)' = One(push) /\ Switches' = Switches
    BY <2>1 DEF InWire, Switches
  <2> QED
    BY <1>1, <1>5, <2>1, <2>2 DEF Parts
<1>9. CASE Misread
  <2>1. rd = "lost" /\ rd' = "lost" /\ words' = words - 1 /\ owed = 0 /\ owed' = 1 /\ UNCHANGED <<push, backlog, age, bus, pending>>
    BY <1>2, <1>9, LoopMisread DEF Misread, Error, InSession, switchVars
  <2>2. InWire' = InWire - 1
    BY <2>1 DEF InWire, Lost, LoopInv, LoopsInv, LoopsOK
  <2>3. One(push)' = One(push) /\ Switches' = Switches
    BY <2>1 DEF Switches
  <2> QED
    BY <1>1, <1>5, <2>1, <2>2, <2>3 DEF Parts
<1>11. CASE SwitchStep
  <2>1. UNCHANGED <<rd, words, wire, push, age, backlog>> /\ owed = 0
    BY <1>11 DEF SwitchStep, SwitchCommand, SwitchTimeout, InSession, readVars, sessVars
  <2>2. InWire' = InWire /\ One(push)' = One(push)
    BY <2>1 DEF InWire, Lost
  <2>3. owed' + Switches' <= Switches
    BY <1>11, <2>1 DEF SwitchStep, SwitchCommand, SwitchTimeout, Switches, LoopInv, SwitchesOK
  <2> QED
    BY <1>1, <1>5, <2>1, <2>2, <2>3 DEF Parts
<1>10. ASSUME InSession, rd = "body",
              \/ wire.kind = "hello" /\ Hello
              \/ wire.kind = "ping" /\ Ping
              \/ wire.kind = "status" /\ RequestStatus
              \/ wire.kind = "request" /\ (RequestStatus \/ Override)
              \/ wire.kind = "result" /\ SwitchResult
              \/ wire.kind = "bad" /\ Error(Answered /\ UNCHANGED words)
       PROVE RoomOK'
  <2>1. owed = 0 /\ backlog' = backlog /\ wire' = Empty /\ rd' = "aligned"
    BY <1>2, <1>10 DEF InSession, Hello, Ping, RequestStatus, Override, SwitchResult, outVars, Error, Answered
  <2>2. InWire' = 0 /\ InWire = Answers(wire.kind)
    BY <1>10, <2>1 DEF InWire, Answers, Empty
  <2>3. wire # Empty
    BY <1>10 DEF LoopInv, LoopsInv, LoopsOK
  <2>4. ~hung[evt.by]
    BY <2>3 DEF LoopInv, LoopsInv, HungOK
  <2>5. Switches' <= Switches
    <3>1. bus' = bus /\ (pending' = pending \/ (pending > 0 /\ pending' = pending - 1))
      BY <1>2, <1>10 DEF Hello, Ping, RequestStatus, Override, SwitchResult, Error, switchVars
    <3>2. bus \in Nat /\ pending \in Nat
      BY DEF LoopInv, SwitchesOK
    <3> QED
      BY <3>1, <3>2 DEF Switches
  <2>6. SUFFICES owed' + One(push)' <= One(push) + Answers(wire.kind)
    BY <1>1, <1>5, <1>10, <2>1, <2>2, <2>4, <2>5, <2>6 DEF Parts
  <2>7. CASE wire.kind = "hello"
    <3>1. owed' = 1 /\ Answers(wire.kind) = 2
      BY <1>10, <2>7 DEF Hello, Answers
    <3> QED
      BY <1>1, <3>1 DEF Parts
  <2>8. CASE wire.kind \in {"ping", "bad"}
    <3>1. owed' = 1 /\ Answers(wire.kind) = 1 /\ push' = push
      BY <1>2, <1>10, <2>8 DEF Ping, Error, Answers
    <3> QED
      BY <1>1, <3>1 DEF Parts
  <2>9. CASE wire.kind = "result"
    <3>1. owed' = owed /\ push' = push /\ Answers(wire.kind) = 0
      BY <1>10, <2>9 DEF SwitchResult, outVars, Answers
    <3> QED
      BY <1>1, <2>1, <3>1 DEF Parts
  <2>10. CASE wire.kind \in {"status", "request"}
    <3>1. Answers(wire.kind) = IF wire.kind = "request" THEN 2 ELSE 1
      BY <2>10 DEF Answers
    <3>2. CASE RequestStatus
      <4>1. owed' = 1 /\ One(push)' = 0
        BY <3>2 DEF RequestStatus, One
      <4> QED
        BY <1>1, <3>1, <4>1 DEF Parts
    <3>3. CASE wire.kind = "request" /\ Override
      <4>1. (owed' = 2 /\ One(push)' = 0) \/ (owed' \in {0, 1} /\ push' = push)
        BY <3>3 DEF Override, One
      <4> QED
        BY <1>1, <3>1, <3>3, <4>1 DEF Parts
    <3> QED
      BY <1>10, <2>10, <3>2, <3>3
  <2> QED
    BY <1>10, <2>7, <2>8, <2>9, <2>10
<1> QED
  BY <1>6, <1>7, <1>8, <1>9, <1>10, <1>11

\* A lost frame is answered up to Threshold times, and its worker waits for it all the while.
LEMMA RoomCut ==
  ASSUME PairInv, LoopInv, LoopInv', RoomOK, CutRead PROVE RoomOK'
<1> USE Numbers
<1> SUFFICES ASSUME evt.st = "open" PROVE RoomOK'
  BY DEF CutRead, pipeVars, RoomOK
<1>1. Parts /\ Parts' /\ hangs * PerHang \in Int
  BY ComingParts, ComingPartsNext, Shares DEF Parts
<1>2. UNCHANGED <<evt, hung, since, sent, batch, q, hangs, owed, push, backlog, bus, pending>> /\ rd = "body" /\ rd' = "lost"
  BY DEF CutRead, pipeVars, loopVars, outVars, switchVars
<1>3. ~hung[evt.by]
  BY <1>2 DEF LoopInv, LoopsInv, HungOK, LoopsOK
<1>4. InWire' <= InWire + Threshold
  <2>1. InWire = Answers(wire.kind) /\ InWire' \in 0..Threshold
    BY <1>1, <1>2 DEF InWire, Parts
  <2> QED
    BY <1>1, <2>1 DEF Parts
<1>5. One(since > 0)' = One(since > 0) /\ Opening' = Opening /\ One(push)' = One(push) /\ Switches' = Switches
  BY <1>2 DEF Opening, Switches
<1>6. Coming' <= Coming + Threshold
  BY <1>1, <1>2, <1>4, <1>5 DEF Parts, Coming
<1>7. Coming + 2 * q <= Base + hangs * PerHang + 0
  BY <1>2, <1>3, Zenon DEF RoomOK
<1>8. Coming' + 2 * q' <= Base + hangs * PerHang + Threshold
  <2>1. \A a, b, n, x, y \in Int : a <= b + Threshold /\ b + 2 * n <= x + y + 0 => a + 2 * n <= x + y + Threshold
    OBVIOUS
  <2>2. Coming \in Int /\ Coming' \in Int /\ q \in Int /\ Base \in Int
    BY <1>1, Shares DEF Parts
  <2> QED
    BY <1>1, <1>2, <1>6, <1>7, <2>1, <2>2, Zenon
<1> QED
  BY <1>2, <1>3, <1>8, Zenon DEF RoomOK

\* The worker's steps: a frame it writes was queued, due or part of the opening.
LEMMA RoomWrites ==
  ASSUME PairInv, LoopInv, LoopInv', RoomOK, NEW c \in Clients,
         EndWrite(c) \/ SendOpening(c) \/ Drain(c) \/ SendPing(c) \/ SendResult(c) \/ SendShutdownNotice(c) \/ TryReadFrame(c)
  PROVE RoomOK'
<1> USE Numbers
<1>1. /\ UNCHANGED <<srv, cmd, evt, pc, hung, readVars, sessVars, owed, push, switchVars, faultVars>>
      /\ pc[c] = "up" /\ evt.by = c
  BY DEF EndWrite, SendOpening, Drain, SendPing, SendResult, SendShutdownNotice, TryReadFrame, Looping, pipeVars, outVars
<1>2. evt.st = "open"
  BY <1>1 DEF PairInv, HoldersOK
<1>3. Parts /\ Parts'
  BY ComingParts, ComingPartsNext
<1>4. ~hung[c]
  BY <1>1, <1>2 DEF EndWrite, SendOpening, Drain, SendPing, SendResult, SendShutdownNotice, TryReadFrame, Looping, LoopInv, LoopsInv, HungOK
<1>5. SUFFICES backlog' + One(since > 0)' + 2 * batch' + Opening' + InWire' + 2 * q'
                 <= backlog + One(since > 0) + 2 * batch + Opening + InWire + 2 * q
  <2>1. One(push)' = One(push) /\ owed' = owed /\ Switches' = Switches
    BY <1>1 DEF Switches, switchVars
  <2>2. Coming' + 2 * q' <= Coming + 2 * q
    BY <1>3, <1>5, <2>1 DEF Parts, Coming
  <2> QED
    BY <1>1, <1>4, <2>2, RoomKept DEF faultVars, readVars
<1>6. CASE EndWrite(c)
  <2>1. UNCHANGED <<backlog, since, batch, sent, q>> /\ wire'.kind = wire.kind
    BY <1>6 DEF EndWrite, loopVars, outVars, LoopInv, LoopsInv, LoopsOK, Empty
  <2>2. InWire' = InWire /\ Opening' = Opening /\ One(since > 0)' = One(since > 0)
    BY <1>1, <2>1 DEF InWire, Lost, Opening, Answers, readVars
  <2> QED
    BY <1>3, <2>1, <2>2 DEF Parts
<1>7. ASSUME ~EndWrite(c) PROVE wire = Empty /\ rd = "aligned" /\ rd' = "aligned" /\ InWire = 0 /\ InWire' = Answers(wire'.kind)
  <2>1. wire = Empty /\ rd = "aligned"
    BY <1>7 DEF SendOpening, Drain, SendPing, SendResult, SendShutdownNotice, TryReadFrame, Looping, LoopInv, LoopsInv, LoopsOK
  <2> QED
    BY <1>1, <2>1 DEF InWire, Answers, Empty, readVars
<1>8. CASE SendOpening(c)
  <2>1. UNCHANGED <<backlog, since>> /\ batch' = q /\ q' = 0
    BY <1>8 DEF SendOpening, outVars
  <2>2. batch = 0
    BY <1>8 DEF SendOpening, Looping, LoopInv, LoopsInv, LoopsOK
  <2>3. Opening' + Answers(wire'.kind) <= Opening
    <3>1. CASE sent = 0
      <4>1. sent' = 1 /\ wire'.kind \in {"hello", "old"}
        BY <1>8, <3>1 DEF SendOpening, Begin
      <4> QED
        BY <3>1, <4>1 DEF Opening, Answers
    <3>2. CASE sent = 1
      <4>1. sent' = 2 /\ wire'.kind = "status"
        BY <1>8, <3>2 DEF SendOpening, Begin
      <4> QED
        BY <3>2, <4>1 DEF Opening, Answers
    <3>3. CASE sent = 2
      <4>1. sent' = 2 /\ wire'.kind = "none"
        BY <1>7, <1>8, <3>3 DEF SendOpening, Empty, EndWrite, Looping
      <4> QED
        BY <3>3, <4>1 DEF Opening, Answers
    <3> QED
      BY <3>1, <3>2, <3>3 DEF LoopInv, LoopsInv, LoopsOK
  <2>4. InWire = 0 /\ InWire' = Answers(wire'.kind)
    BY <1>7, <1>8 DEF SendOpening, EndWrite, Looping
  <2>5. One(since > 0)' = One(since > 0)
    BY <2>1
  <2>6. backlog \in Int /\ One(since > 0) \in Int /\ q \in Int /\ Opening \in Int /\ Opening' \in Int /\ Answers(wire'.kind) \in Int
    BY <1>3 DEF Parts
  <2>7. \A b, s, n, o, p, a \in Int : p + a <= o => b + s + 2 * n + p + a + 2 * 0 <= b + s + 2 * 0 + o + 0 + 2 * n
    OBVIOUS
  <2>8. backlog + One(since > 0) + 2 * q + Opening' + Answers(wire'.kind) + 2 * 0
          <= backlog + One(since > 0) + 2 * 0 + Opening + 0 + 2 * q
    BY <2>3, <2>6, <2>7, Zenon
  <2> QED
    BY <2>1, <2>2, <2>4, <2>5, <2>8, Zenon
<1>9. CASE Drain(c)
  <2>1. UNCHANGED <<backlog, since, sent, q>>
    BY <1>9 DEF Drain, outVars
  <2>2. 2 * batch' + Answers(wire'.kind) <= 2 * batch
    <3>1. CASE batch > 0
      <4>1. batch' = batch - 1 /\ wire'.kind \in {"request", "bad"}
        BY <1>9, <3>1 DEF Drain, Begin
      <4> QED
        BY <1>3, <4>1 DEF Answers, Parts
    <3>2. CASE batch = 0
      BY <1>9, <3>2 DEF Drain, Looping, Answers, Empty
    <3> QED
      BY <1>3, <3>1, <3>2 DEF Parts
  <2>3. InWire = 0 /\ InWire' = Answers(wire'.kind)
    BY <1>7, <1>9 DEF Drain, EndWrite, Looping
  <2>4. One(since > 0)' = One(since > 0) /\ Opening' = Opening
    BY <2>1 DEF Opening
  <2> QED
    BY <1>3, <2>1, <2>2, <2>3, <2>4 DEF Parts
<1>10. CASE SendPing(c)
  <2>1. UNCHANGED <<backlog, batch, sent, q>>
    BY <1>10 DEF SendPing, outVars
  <2>2. One(since > 0)' + Answers(wire'.kind) <= One(since > 0)
    <3>1. CASE since > 0
      BY <1>10, <3>1 DEF SendPing, Begin, Answers, One
    <3>2. CASE ~(since > 0)
      BY <1>10, <3>2 DEF SendPing, Answers, One, Empty, Looping
    <3> QED
      BY <3>1, <3>2
  <2>3. InWire = 0 /\ InWire' = Answers(wire'.kind)
    BY <1>7, <1>10 DEF SendPing, EndWrite, Looping
  <2>4. Opening' = Opening
    BY <2>1 DEF Opening
  <2> QED
    BY <1>3, <2>1, <2>2, <2>3, <2>4 DEF Parts
<1>11. CASE SendResult(c) \/ SendShutdownNotice(c) \/ TryReadFrame(c)
  <2>1. UNCHANGED <<batch, sent, since, q>> /\ backlog' <= backlog
    BY <1>3, <1>11 DEF SendResult, SendShutdownNotice, TryReadFrame, outVars, loopVars, Parts
  <2>2. Answers(wire'.kind) = 0
    BY <1>11 DEF SendResult, SendShutdownNotice, TryReadFrame, Looping, Empty, Begin, Answers
  <2>3. InWire = 0 /\ InWire' = Answers(wire'.kind)
    BY <1>7, <1>11 DEF SendResult, SendShutdownNotice, TryReadFrame, EndWrite, Looping
  <2>4. One(since > 0)' = One(since > 0) /\ Opening' = Opening
    BY <2>1 DEF Opening
  <2> QED
    BY <1>3, <2>1, <2>2, <2>3, <2>4 DEF Parts
<1> QED
  BY <1>6, <1>8, <1>9, <1>10, <1>11

\* A callback hangs: from now on time passes and requests are queued; and it returns.
LEMMA RoomHangs ==
  ASSUME PairInv, LoopInv, LoopInv', RoomOK, NEW c \in Clients, Hang(c) \/ Wake(c) PROVE RoomOK'
<1> USE Numbers
<1>1. Parts /\ Parts'
  BY ComingParts, ComingPartsNext
<1>2. evt' = evt /\ UNCHANGED <<sent, since, q, batch, wire, rd, words, age, owed, push, bus, pending>>
  BY DEF Hang, Wake, pipeVars, loopVars, readVars, sessVars, outVars
<1>3. InWire' = InWire /\ Opening' = Opening /\ One(push)' = One(push) /\ One(since > 0)' = One(since > 0) /\ Switches' = Switches
  BY <1>2 DEF InWire, Lost, Opening, Switches
<1>4. CASE Hang(c)
  <2>1. evt = [st |-> "open", by |-> c] /\ ~hung[c] /\ wire = Empty /\ hangs' = hangs + 1 /\ backlog' = backlog - 1 /\ burst' = burst
        /\ hung' = [hung EXCEPT ![c] = TRUE]
    BY <1>4 DEF Hang, Looping, PairInv, HoldersOK
  <2>2. hung'[c]
    BY <2>1, Zenon DEF LoopInv, LoopsInv, LoopsOK
  <2>3. rd # "lost"
    BY <2>1 DEF LoopInv, LoopsInv, LoopsOK
  <2>4. Coming + 2 * q <= Base + hangs * PerHang + 0
    BY <2>1, <2>3 DEF RoomOK
  <2>5. Coming' = Coming - 1
    BY <1>1, <1>2, <1>3, <2>1 DEF Coming, Parts
  <2>6. hangs * PerHang \in Int /\ hangs \in Nat /\ Base \in Int
    BY <1>1, Shares DEF Parts
  <2>7. Coming' <= Base + hangs * PerHang + age + One(since > 0) + 2 * burst
    BY <1>1, <2>4, <2>5, <2>6 DEF Parts
  <2>8. hangs' - 1 = hangs
    BY <2>1, <2>6
  <2>9. Coming' <= Base + (hangs' - 1) * PerHang + age' + One(since > 0)' + 2 * burst'
    BY <1>2, <1>3, <2>1, <2>7, <2>8, Zenon
  <2> QED
    BY <1>2, <2>1, <2>2, <2>9 DEF RoomOK
<1>5. CASE Wake(c)
  <2>1. hangs' = hangs /\ backlog' = backlog /\ hung' = [hung EXCEPT ![c] = FALSE] /\ hung \in [Clients -> BOOLEAN]
    BY <1>5 DEF Wake, faultVars, outVars, LoopInv, LoopsInv, LoopsOK
  <2>2. Coming' = Coming
    BY <1>2, <1>3, <2>1 DEF Coming
  <2> SUFFICES ASSUME evt.st = "open" PROVE RoomOK'
    BY <1>2 DEF RoomOK
  <2>3. evt.by \in Clients
    BY DEF PairInv, PipesOK, Joined
  <2>4. CASE evt.by # c
    <3>1. hung'[evt.by] = hung[evt.by] /\ Coming' + 2 * q' <= Coming + 2 * q /\ Coming' <= Coming
      BY <1>1, <1>2, <2>1, <2>2, <2>3, <2>4 DEF Parts
    <3>2. burst' = burst
      BY <1>5, <2>4 DEF Wake
    <3> QED
      BY <1>2, <2>1, <3>1, <3>2, RoomKept
  <2>5. CASE evt.by = c
    <3>1. hung[evt.by] /\ ~hung'[evt.by]
      BY <1>5, <2>1, <2>3, <2>5 DEF Wake
    <3>2. Coming <= Base + (hangs - 1) * PerHang + age + One(since > 0) + 2 * burst
      BY <3>1, Zenon DEF RoomOK
    <3>3. hangs \in Nat /\ hangs > 0 /\ wire = Empty
      BY <1>1, <3>1 DEF LoopInv, LoopsInv, HungOK, Parts
    <3>4. hangs - 1 \in Nat /\ (hangs - 1) + 1 = hangs
      BY <3>3
    <3>5. (hangs - 1) * PerHang \in Nat /\ hangs * PerHang = (hangs - 1) * PerHang + PerHang
      BY <3>4, Shares
    <3>6. Coming + 2 * q <= Base + ((hangs - 1) * PerHang + PerHang)
      <4>1. \A a, n, b, h, g, o, u \in Nat :
              a <= b + h + g + o + 2 * u /\ g <= HeartbeatTimeout /\ o <= 1 /\ u <= MaxSwitches /\ n <= MaxQueued
              => a + 2 * n <= b + (h + (HeartbeatTimeout + 1 + 2 * MaxQueued + 2 * MaxSwitches))
        OBVIOUS
      <4>2. age \in Nat /\ One(since > 0) \in Nat /\ burst \in Nat /\ q \in Nat /\ age <= HeartbeatTimeout /\ One(since > 0) <= 1
            /\ burst <= MaxSwitches /\ q <= MaxQueued /\ Base \in Nat
        BY <1>1, Shares DEF Parts
      <4>3. Coming \in Nat
        <5>1. InWire \in Nat
          BY <1>1, <3>3 DEF InWire, Parts, LoopInv, LoopsInv, LoopsOK
        <5> QED
          BY <1>1, <5>1 DEF Coming, Parts
      <4>4. Coming + 2 * q <= Base + ((hangs - 1) * PerHang + (HeartbeatTimeout + 1 + 2 * MaxQueued + 2 * MaxSwitches))
        BY <3>2, <3>5, <4>1, <4>2, <4>3, Zenon
      <4> QED
        BY <4>4, Zenon DEF PerHang
    <3>7. Coming' + 2 * q' <= Base + hangs' * PerHang
      BY <1>2, <2>1, <2>2, <3>5, <3>6, Zenon
    <3>8. rd # "lost"
      BY <3>3 DEF LoopInv, LoopsInv, LoopsOK
    <3>9. Base + hangs' * PerHang + 0 = Base + hangs' * PerHang
      <4>1. hangs' * PerHang \in Nat
        BY <2>1, <3>3, Shares
      <4>2. \A n \in Nat : Base + n + 0 = Base + n
        BY Shares
      <4> QED
        BY <4>1, <4>2, Zenon
    <3>10. Coming' + 2 * q' <= Base + hangs' * PerHang + 0
      BY <3>7, <3>9, Zenon
    <3> QED
      BY <1>2, <3>1, <3>8, <3>10, Zenon DEF RoomOK
  <2> QED
    BY <2>4, <2>5
<1> QED
  BY <1>4, <1>5

\* Time and the dock: only a hung plugin lets them get ahead of it.
LEMMA RoomTime ==
  ASSUME PairInv, LoopInv, LoopInv', RoomOK, Second \/ Ask \/ PostSwitch PROVE RoomOK'
<1> USE Numbers
<1>1. Parts /\ Parts'
  BY ComingParts, ComingPartsNext
<1>2. UNCHANGED <<evt, hung, sent, batch, wire, rd, words, owed, backlog, hangs>>
  BY DEF Second, Ask, PostSwitch, pipeVars, loopVars, readVars, sessVars, outVars, faultVars
<1> SUFFICES ASSUME evt.st = "open" PROVE RoomOK'
  BY <1>2 DEF RoomOK
<1>3. InWire' = InWire /\ Opening' = Opening
  BY <1>2 DEF InWire, Lost, Opening
<1>4. hangs * PerHang \in Nat /\ (hangs - 1) * PerHang \in Int /\ Base \in Nat
  BY <1>1, Shares DEF Parts
<1>5. CASE ~hung[evt.by]
  <2>1. wire = Empty /\ backlog = 0 /\ since = 0 /\ sent = 2
    BY <1>5 DEF Second, Ask, PostSwitch, Settled
  <2>2. rd = "aligned"
    BY <2>1 DEF LoopInv, LoopsInv, LoopsOK
  <2>3. InWire = 0 /\ Opening = 0
    BY <2>1, <2>2 DEF InWire, Opening, Answers, Empty
  <2>4. owed' + One(since > 0)' <= 2
    <3>1. CASE Second
      BY <1>1, <1>2, <3>1 DEF Second, InSession, Parts
    <3>2. CASE Ask \/ PostSwitch
      BY <1>1, <1>2, <2>1, <3>2 DEF Ask, PostSwitch, loopVars, One, Parts
    <3> QED
      BY <3>1, <3>2
  <2>5. backlog' = 0 /\ InWire' = 0 /\ Opening' = 0
    BY <1>2, <1>3, <2>1, <2>3
  <2>6. q' + batch' <= MaxQueued
    <3>1. QueueOK' /\ wire = Empty /\ batch \in Nat /\ wire' = wire /\ batch' = batch
      BY <1>1, <1>2, <2>1 DEF LoopInv, Parts
    <3>2. InFlight' = batch'
      <4>1. ~(Empty.kind \in {"request", "bad"})
        BY DEF Empty
      <4>2. InFlight = batch + 0 /\ InFlight' = InFlight
        BY <3>1, <4>1, Zenon DEF InFlight
      <4> QED
        BY <3>1, <4>2
    <3> QED
      BY <3>1, <3>2 DEF QueueOK
  <2>7. Coming' + 2 * q' <= Base
    <3>1. \A o, p, n, b, w, m \in Nat :
            o + n <= 2 /\ p <= 1 /\ m + b <= MaxQueued /\ w <= 2 * MaxSwitches
            => 0 + o + p + n + 2 * b + 0 + 0 + w + 2 * m <= 2 * MaxQueued + 2 * MaxSwitches + 3
      OBVIOUS
    <3>2. owed' \in Nat /\ One(push)' \in Nat /\ One(since > 0)' \in Nat /\ batch' \in Nat /\ Switches' \in Nat /\ q' \in Nat
          /\ One(push)' <= 1 /\ Switches' <= 2 * MaxSwitches
      BY <1>1 DEF Parts
    <3>3. 0 + owed' + One(push)' + One(since > 0)' + 2 * batch' + 0 + 0 + Switches' + 2 * q' <= Base
      BY <2>4, <2>6, <3>1, <3>2, Zenon DEF Base
    <3> QED
      BY <2>5, <3>3, Zenon DEF Coming
  <2>8. Coming' + 2 * q' <= Base + hangs * PerHang + 0
    <3>1. Coming' + 2 * q' \in Int
      BY <1>1 DEF Parts
    <3>2. \A a, b \in Int, n \in Nat : a <= b => a <= b + n + 0
      OBVIOUS
    <3>3. Base \in Int
      BY <1>4
    <3> QED
      BY <1>4, <2>7, <3>1, <3>2, <3>3, Zenon
  <2> QED
    BY <1>2, <1>5, <2>2, <2>8 DEF RoomOK
<1>6. CASE hung[evt.by]
  <2>1. Coming <= Base + (hangs - 1) * PerHang + age + One(since > 0) + 2 * burst
    BY <1>6, Zenon DEF RoomOK
  <2>2. CASE Ask
    <3>1. UNCHANGED <<since, push, age, bus, pending, burst>>
      BY <2>2 DEF Ask, sessVars, outVars, switchVars
    <3>2. Coming' = Coming
      BY <1>2, <1>3, <3>1 DEF Coming, Switches
    <3> QED
      BY <1>2, <1>6, <2>1, <3>1, <3>2, Zenon DEF RoomOK
  <2>3. CASE Second
    <3>1. age' = age + 1 /\ UNCHANGED <<bus, pending, burst>>
      BY <2>3 DEF Second, switchVars
    <3>2. Switches' = Switches
      BY <3>1 DEF Switches
    <3>3. Coming' <= Coming + 1 + One(since > 0)' - One(since > 0)
      BY <1>1, <1>2, <1>3, <3>2 DEF Coming, Parts
    <3>4. Coming' <= Base + (hangs - 1) * PerHang + age' + One(since > 0)' + 2 * burst'
      BY <1>1, <1>4, <2>1, <3>1, <3>3 DEF Parts
    <3> QED
      BY <1>2, <1>6, <3>4, Zenon DEF RoomOK
  <2>4. CASE PostSwitch
    <3>1. UNCHANGED <<since, push, age>> /\ bus' = bus + 1 /\ pending' = pending /\ burst' = burst + 1
      BY <1>6, <2>4 DEF PostSwitch, loopVars, sessVars, outVars
    <3>2. Switches' = Switches + 2
      BY <3>1 DEF Switches, LoopInv, SwitchesOK
    <3>3. Coming' = Coming + 2
      BY <1>1, <1>2, <1>3, <3>1, <3>2 DEF Coming, Parts
    <3>4. Coming' <= Base + (hangs - 1) * PerHang + age + One(since > 0) + 2 * burst'
      BY <1>1, <1>4, <2>1, <3>1, <3>3 DEF Parts
    <3> QED
      BY <1>2, <1>6, <3>1, <3>4, Zenon DEF RoomOK
  <2> QED
    BY <2>2, <2>3, <2>4
<1> QED
  BY <1>5, <1>6

LEMMA RoomStep == LinkInv /\ [Next]_vars => RoomOK'
<1> SUFFICES ASSUME LinkInv, [Next]_vars PROVE RoomOK'
  OBVIOUS
<1>1. PairInv /\ LoopInv /\ RoomOK /\ PairInv' /\ LoopInv'
  BY PairStep, LoopStep DEF LinkInv
<1> USE <1>1, Numbers
<1>2. CASE evt'.st # "open"
  BY <1>2 DEF RoomOK
<1>3. CASE Reset \/ CreateCmd \/ CreateEvt \/ Join
  <2>1. CASE Join
    <3>1. UNCHANGED <<evt, hung, hangs, rd, q, age, since, burst>> /\ Coming' = Coming
      BY <2>1 DEF Join, pipeVars, loopVars, readVars, sessVars, outVars, switchVars, faultVars, Coming, Opening, InWire, Lost, Switches
    <3>2. Coming \in Int /\ q \in Int
      BY ComingParts DEF Parts
    <3> QED
      BY <3>1, <3>2, RoomKept
  <2> QED
    BY <1>2, <1>3, <2>1 DEF Reset, Drop, CreateCmd, CreateEvt, Gone, Listening, PairInv, PipesOK
<1>4. CASE UNCHANGED vars
  <2>1. UNCHANGED <<evt, hung, hangs, rd, q, age, since, burst>> /\ Coming' = Coming
    BY <1>4 DEF vars, pipeVars, loopVars, readVars, sessVars, outVars, switchVars, faultVars, Coming, Opening, InWire, Lost, Switches
  <2>2. Coming \in Int /\ q \in Int
    BY ComingParts DEF Parts
  <2> QED
    BY <2>1, <2>2, RoomKept
<1>5. CASE SwitchStep \/ WriteFrame \/ StatusPush \/ Silent \/ ReadLength \/ Misread \/ ReadBody \/ ReadEof \/ PipeError \/ CutRead
  <2>1. Reset \/ Apart
    BY <1>5, SessionMoves
  <2> SUFFICES ASSUME Apart PROVE RoomOK'
    BY <1>3, <2>1
  <2>2. CASE PipeError
    BY <1>3, <2>2 DEF PipeError, Reset
  <2>3. CASE CutRead
    BY <2>3, RoomCut
  <2>4. CASE SwitchStep \/ WriteFrame \/ StatusPush \/ ReadLength \/ Misread
    BY <2>4, RoomServer
  <2>5. CASE ReadBody \/ Silent \/ ReadEof
    <3>1. ~End /\ ~EndWithNotice
      BY <2>5 DEF Apart, ReadBody, Silent, ReadEof, InSession, End, EndWithNotice
    <3> QED
      BY <2>5, <3>1, RoomServer DEF ReadBody, Silent, ReadEof
  <2> QED
    BY <1>5, <2>2, <2>3, <2>4, <2>5
<1>6. ASSUME NEW c \in Clients, WorkerMoves(c) PROVE RoomOK'
  <2>0. CASE Exit(c) /\ evt.by = c
    <3>1. evt'.st = "closed"
      BY <2>0 DEF Exit, Closed, PairInv, PipesOK, Pipe
    <3> QED
      BY <1>2, <3>1
  <2> SUFFICES ASSUME ~(Exit(c) /\ evt.by = c) PROVE RoomOK'
    BY <2>0
  <2>1. UNCHANGED <<loopVars, wire, readVars, sessVars, outVars, switchVars, faultVars>>
    BY <1>6 DEF WorkerMoves, OpenCmd, OpenEvt, Notice, Exit, Launch, loopVars, outVars
  <2>2. Coming' = Coming /\ UNCHANGED <<hangs, rd, q, age, since, burst>>
    BY <2>1 DEF loopVars, readVars, sessVars, outVars, switchVars, faultVars, Coming, Opening, InWire, Lost, Switches
  <2>3. Coming \in Int /\ q \in 0..MaxQueued /\ hangs \in Nat
    BY ComingParts DEF Parts
  <2>4. CASE evt.st = "listening" /\ evt' = [st |-> "open", by |-> c]
    <3>0. Switches = 0
      BY <2>4 DEF Switches, LoopInv, SwitchesOK, Joined
    <3>1. Quiet /\ ~hung'[c]
      BY <1>6, <2>4 DEF LoopInv, LoopsInv, StartsQuiet, Joined, WorkerMoves, OpenCmd, OpenEvt, Notice, Exit, Launch, pipeVars, Closed,
           HungOK, PairInv, PipesOK, Pipe
    <3>2. Coming = 3
      <4>1. One(push) = 0 /\ One(since > 0) = 0
        BY <3>1 DEF Quiet, One
      <4>2. InWire = 0 /\ Opening = 3
        BY <3>1 DEF Quiet, InWire, Opening, Answers, Empty
      <4> QED
        BY <3>0, <3>1, <4>1, <4>2 DEF Quiet, Coming
    <3>3. Coming + 2 * q <= Base
      BY <2>3, <3>2 DEF Base
    <3>4. hangs * PerHang \in Nat
      BY <2>3, Shares
    <3>5. Coming' + 2 * q' <= Base + hangs' * PerHang + 0
      <4>1. \A a, b \in Int, n \in Nat : a <= b => a <= b + n + 0
        OBVIOUS
      <4>2. Coming + 2 * q \in Int /\ Base \in Int
        BY <2>3, Shares
      <4> QED
        BY <2>2, <3>3, <3>4, <4>1, <4>2, Zenon
    <3>6. rd' # "lost"
      BY <2>2, <3>1 DEF Quiet
    <3> QED
      BY <2>4, <3>1, <3>5, <3>6, Zenon DEF RoomOK
  <2>5. CASE evt' = evt /\ hung'[evt.by] = hung[evt.by]
    BY <2>2, <2>3, <2>5, RoomKept
  <2>6. (evt.st = "listening" /\ evt' = [st |-> "open", by |-> c]) \/ (evt' = evt /\ hung'[evt.by] = hung[evt.by]) \/ evt'.st # "open"
    BY <1>6 DEF WorkerMoves, OpenCmd, OpenEvt, Notice, Exit, Launch, pipeVars, Closed, LoopInv, LoopsInv, LoopsOK, PairInv, PipesOK,
         Pipe, Joined
  <2> QED
    BY <1>2, <2>4, <2>5, <2>6
<1>7. ASSUME NEW c \in Clients, ClientStep(c) \/ SendResult(c) \/ SendShutdownNotice(c) \/ Hang(c) \/ Wake(c) \/ Exit(c) \/ Launch(c)
      PROVE RoomOK'
  BY <1>6, <1>7, RoomWrites, RoomHangs DEF ClientStep, WorkerMoves
<1>8. CASE Second \/ Ask \/ PostSwitch
  BY <1>8, RoomTime
<1> QED
  BY <1>3, <1>4, <1>5, <1>7, <1>8 DEF Next, ServerStep

\* What is in the event pipe and what is coming fit into it, however often the plugin
\* hangs within the number of hangs the room is for.
THEOREM LinkInvariant == Spec => []LinkInv
<1>1. Init => RoomOK
  BY DEF Init, RoomOK, Gone
<1>2. LinkInv /\ [Next]_vars => LinkInv'
  BY RoomStep, PairStep, LoopStep DEF LinkInv
<1>3. Init /\ PairInv /\ LoopInv => LinkInv
  BY <1>1 DEF LinkInv
<1> QED
  BY <1>2, <1>3, LoopInvariant, PTL DEF Spec

\* The core never waits for room in the event pipe while the plugin waits for its frame
\* to be read, although neither write_frame nor WriteFile has a timeout.
THEOREM LinkNotWedged == Spec => []NotWedged
<1>1. LinkInv => NotWedged
  <2> SUFFICES ASSUME LinkInv, evt.st = "open", owed > 0, backlog = EvtCap, wire # Empty PROVE FALSE
    BY DEF NotWedged
  <2> USE Numbers
  <2>1. Parts
    BY ComingParts DEF LinkInv
  <2>2. ~hung[evt.by]
    BY DEF LinkInv, LoopInv, LoopsInv, HungOK
  <2>3. PICK extra \in 0..Threshold : Coming + 2 * q <= Base + hangs * PerHang + extra
    <3>1. (IF rd = "lost" THEN Threshold ELSE 0) \in 0..Threshold
      OBVIOUS
    <3>2. Coming + 2 * q <= Base + hangs * PerHang + (IF rd = "lost" THEN Threshold ELSE 0)
      BY <2>2, Zenon DEF LinkInv, RoomOK
    <3> QED
      BY <3>1, <3>2, Zenon
  <2>4. InWire >= 0
    BY <2>1 DEF Parts, InWire
  <2>5. Coming + 2 * q > EvtCap
    BY <2>1, <2>4 DEF Coming, Parts
  <2>6. hangs * PerHang \in Nat /\ MaxHangs * PerHang \in Nat /\ hangs * PerHang <= MaxHangs * PerHang
    BY <2>1, Shares DEF Parts
  <2>7. EvtCap >= MaxHangs * PerHang + Base + Threshold
    <3>1. EvtCap >= MaxHangs * PerHang + 2 * MaxQueued + 2 * MaxSwitches + Threshold + 3
      BY RoomAssumption DEF PerHang
    <3>2. \A e, n \in Int : e >= n + 2 * MaxQueued + 2 * MaxSwitches + Threshold + 3
                             => e >= n + (2 * MaxQueued + 2 * MaxSwitches + 3) + Threshold
      OBVIOUS
    <3>3. EvtCap \in Int /\ MaxHangs * PerHang \in Int
      BY <2>6
    <3> QED
      BY <3>1, <3>2, <3>3, Zenon DEF Base
  <2>8. Coming + 2 * q \in Int
    BY <2>1 DEF Parts
  <2>9. \A n, h, k, x \in Int : ~(n <= Base + h + x /\ h <= k /\ x <= Threshold /\ n > EvtCap
                                   /\ EvtCap >= k + Base + Threshold)
    BY Shares
  <2>10. hangs * PerHang \in Int /\ MaxHangs * PerHang \in Int /\ extra \in Int /\ extra <= Threshold
    BY <2>6
  <2> QED
    BY <2>3, <2>5, <2>6, <2>7, <2>8, <2>9, <2>10, Zenon
<1> QED
  BY <1>1, LinkInvariant, PTL
=============================================================================
