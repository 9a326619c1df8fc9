------------------------- MODULE SettingsSyncProofs -------------------------
(***************************************************************************)
(* Dock actions for any number of actions, settings, values, lost sessions *)
(* and theme refreshes.  Over the types there are three invariants:        *)
(*                                                                         *)
(*   EndInv     the plugin's lists of pending actions against the results  *)
(*              the dock was told (OneTerminalResult);                     *)
(*   ShowInv    the snapshots under way against the core's overrides       *)
(*              (ViewIsCurrent);                                           *)
(*   LatestInv  the queues, the batch being sent and the pipe against the  *)
(*              newest request for a target (LatestHolds).                 *)
(***************************************************************************)
EXTENDS SettingsSync, FiniteSetTheorems, SequenceTheorems, TLAPS

Snap == [Targets -> Values \cup {Unset}]
Frame == [type: {"hello", "status"}] \cup [type: {"set"}, key: Targets, val: Values]
Results == Terminal \cup {"queued"}

DockTypes ==
  /\ step \in [Actions -> {"new", "queue", "answer", "done"}]
  /\ ask \in [Actions -> Ask \cup {NoAsk}]
  /\ told \in [Actions -> Seq(Results)]
  /\ order \in Seq(Actions)
  /\ waiting \subseteq Actions /\ overdue \subseteq waiting /\ statusIds \in Seq(Actions)
  /\ \A a \in Actions : step[a] = "queue" => ask[a] \in Ask

WorkTypes ==
  /\ modeQ \in Seq(Item) /\ setQ \in Seq(Item) /\ batch \in Seq(Item)
  /\ client \in {"down", "top", "mode", "send_mode", "set", "send_set", "status", "read", "stopped"}
  /\ client \in {"send_mode", "send_set"} => batch # <<>>

WireTypes ==
  /\ cmd \in Seq(Frame) /\ evt \in Seq(Snap)
  /\ core \in {"listen", "session", "shaken"}
  /\ overrides \in Snap /\ view \in Snap /\ themed \subseteq Snap

SyncTypes == DockTypes /\ WorkTypes /\ WireTypes

\* The results that end an action, and the actions in a list.
Ends(r) == {i \in DOMAIN r : r[i] \in Terminal}
Listed(ids, a) == \E i \in DOMAIN ids : ids[i] = a
Distinct(ids) == \A i, j \in DOMAIN ids : i # j => ids[i] # ids[j]

\* A pending action has not ended and is pending once; none ended twice.
EndOk(a) ==
  /\ step[a] = "new" => told[a] = <<>> /\ a \notin waiting /\ ~Listed(statusIds, a)
  /\ ~(a \in waiting /\ Listed(statusIds, a))
  /\ a \in waiting \/ Listed(statusIds, a) => Ends(told[a]) = {}
  /\ \A i, j \in Ends(told[a]) : i = j

EndInv == Distinct(statusIds) /\ \A a \in Actions : EndOk(a)

\* The snapshot has every override.
Shows(ov, snap) == \A t \in Targets : ov[t] # Unset => snap[t] = ov[t]

\* The last snapshot sent is in the pipe, or is the one shown.
ShowInv ==
  InSession /\ ClientOpen =>
    /\ evt # <<>> => Shows(overrides, evt[Len(evt)])
    /\ evt = <<>> /\ fresh => Shows(overrides, view)

\* No request for t in a queue, or the last one there sets t to v; and the same
\* of the frames in the pipe.
Lacks(q, t) == \A i \in DOMAIN q : q[i].key # t
LastIs(q, t, v) == \E i \in DOMAIN q : q[i].key = t /\ q[i].val = v /\ \A j \in DOMAIN q : j > i => q[j].key # t
Sets(f, t) == f.type = "set" /\ f.key = t
CmdLacks(c, t) == \A i \in DOMAIN c : ~Sets(c[i], t)
CmdLast(c, t, v) == \E i \in DOMAIN c : Sets(c[i], t) /\ c[i].val = v /\ \A j \in DOMAIN c : j > i => ~Sets(c[j], t)

\* The newest request for t anywhere between the queue q and the value held, by
\* way of the batch b and the pipe c, sets t to v.
Line(q, b, c, held, t, v) ==
  /\ Lacks(q, t) \/ LastIs(q, t, v)
  /\ Lacks(q, t) => Lacks(b, t) \/ LastIs(b, t, v)
  /\ Lacks(q, t) /\ Lacks(b, t) => CmdLacks(c, t) \/ CmdLast(c, t, v)
  /\ Lacks(q, t) /\ Lacks(b, t) /\ CmdLacks(c, t) => held \in {Unset, v}

Queue(t) == IF t = "mode" THEN modeQ ELSE setQ
Held(t) == IF InSession THEN overrides[t] ELSE Unset
Holds(t, v) == Line(Queue(t), batch, cmd, Held(t), t, v)

OrderInv == \A i \in DOMAIN order : step[order[i]] \in {"answer", "done"} /\ ask[order[i]] \in Ask

Of(q, K) == \A i \in DOMAIN q : q[i].key \in K
OneEach(q) == \A i, j \in DOMAIN q : q[i].key = q[j].key => i = j

QueueInv ==
  /\ Of(modeQ, {"mode"}) /\ Of(setQ, Settings)
  /\ client = "send_mode" => Of(batch, {"mode"})
  /\ client = "send_set" => Of(batch, Settings)
  /\ client \notin {"send_mode", "send_set", "stopped"} => batch = <<>>
  /\ ~requeued => OneEach(setQ)

HoldInv ==
  \A a \in Actions, t \in Targets, v \in Values :
    Newest(a) /\ ask[a].key = t /\ ask[a].val = v /\ (t = "mode" \/ ~requeued) => Holds(t, v)

LatestInv == OrderInv /\ QueueInv /\ HoldInv

-----------------------------------------------------------------------------
\* Types.

\* The steps by what they have to do with the dock's bookkeeping.
LEMMA DockMoves ==
  ASSUME Next
  PROVE \/ \E a \in Actions : (\E req \in Ask : Track(a, req)) \/ Enqueue(a) \/ Answer(a) \/ Reject(a) \/ ActionOverdue(a)
        \/ DrainExpired \/ Unload \/ ReadSnapshot
        \/ UNCHANGED <<dockVars, pendVars>>
<1>1. CASE ClientStep
  BY <1>1 DEF ClientStep, Connect, Top, Drain, SendItem, Requeue, SendStatus, ReadNothing
<1>2. CASE CoreReads \/ CorePush \/ SessionLost
  BY <1>2 DEF CoreReads, CoreHello, CoreStatus, CoreSet, CoreEof, CorePush, SessionLost
<1>3. CASE ThemeRead \/ ThemeEmit \/ StopClient
  BY <1>3 DEF ThemeRead, ThemeEmit, StopClient
<1> QED
  BY <1>1, <1>2, <1>3 DEF Next, Submit

\* ... with the outgoing queues and the worker ...
LEMMA WorkMoves ==
  ASSUME Next
  PROVE \/ \E a \in Actions : Enqueue(a)
        \/ StopClient
        \/ Connect \/ Top \/ Drain \/ SendItem \/ Requeue \/ SendStatus \/ ReadSnapshot \/ ReadNothing
        \/ UNCHANGED <<modeQ, setQ, batch, client, requeued>>
<1> USE DEF queueVars, workVars
<1>1. CASE \E a \in Actions : Submit(a) \/ Reject(a) \/ ActionOverdue(a)
  BY <1>1 DEF Submit, Track, Answer, Reject, ActionOverdue
<1>2. CASE CoreReads \/ CorePush \/ SessionLost
  BY <1>2 DEF CoreReads, CoreHello, CoreStatus, CoreSet, CoreEof, CorePush, SessionLost
<1>3. CASE DrainExpired \/ ThemeRead \/ ThemeEmit \/ Unload
  BY <1>3 DEF DrainExpired, ThemeRead, ThemeEmit, Unload
<1> QED
  BY <1>1, <1>2, <1>3 DEF Next, ClientStep

\* ... and with the pipes, the core and the snapshots.
LEMMA WireMoves ==
  ASSUME Next
  PROVE \/ Connect \/ Top \/ SendItem \/ SendStatus \/ ReadSnapshot
        \/ CoreHello \/ CoreStatus \/ CoreSet \/ CorePush
        \/ EndSession /\ UNCHANGED <<pipeVars, client, view, fresh, themed>>
        \/ ThemeRead \/ ThemeEmit \/ Unload \/ StopClient
        \/ UNCHANGED <<pipeVars, coreVars, view, fresh, themed>> /\ (ClientOpen' => ClientOpen)
<1> USE DEF workVars, viewVars, ClientOpen
<1>1. CASE \E a \in Actions : Submit(a) \/ Reject(a) \/ ActionOverdue(a)
  BY <1>1 DEF Submit, Track, Enqueue, Answer, Reject, ActionOverdue
<1>2. CASE ClientStep
  <2>1. CASE Drain \/ Requeue
    BY <2>1 DEF Drain, Requeue, AfterSend
  <2>2. CASE ReadNothing
    BY <2>2 DEF ReadNothing, NextRound
  <2> QED
    BY <1>2, <2>1, <2>2 DEF ClientStep
<1>3. CASE CoreReads
  BY <1>3 DEF CoreReads, CoreEof
<1>4. CASE SessionLost \/ DrainExpired
  BY <1>4 DEF SessionLost, DrainExpired
<1> QED
  BY <1>1, <1>2, <1>3, <1>4 DEF Next

LEMMA SnapshotsAre ==
  ASSUME NEW ov \in Snap, NEW snap \in Snapshots(ov)
  PROVE snap \in Snap /\ \A t \in Targets : ov[t] # Unset => snap[t] = ov[t]
  BY DEF Snapshots, Snap, Targets

LEMMA DockTyped ==
  ASSUME SyncTypes, [Next]_vars PROVE DockTypes'
<1> USE DEF SyncTypes, DockTypes, Results, Terminal
<1>1. ASSUME NEW a \in Actions, NEW req \in Ask, Track(a, req) PROVE DockTypes'
  <2>1. step' \in [Actions -> {"new", "queue", "answer", "done"}] /\ ask' \in [Actions -> Ask \cup {NoAsk}]
        /\ \A b \in Actions : step'[b] = "queue" => ask'[b] \in Ask
    BY <1>1 DEF Track
  <2>2. UNCHANGED <<told, order, overdue>>
    BY <1>1 DEF Track
  <2>3. waiting' \subseteq Actions /\ waiting \subseteq waiting'
    BY <1>1 DEF Track
  <2>4. statusIds' \in Seq(Actions)
    <3>1. statusIds' = statusIds \/ statusIds' = Append(statusIds, a)
      BY <1>1 DEF Track
    <3>2. Append(statusIds, a) \in Seq(Actions)
      OBVIOUS
    <3> QED
      BY <3>1, <3>2
  <2> QED
    BY <2>1, <2>2, <2>3, <2>4
<1>2. ASSUME NEW a \in Actions, Enqueue(a) PROVE DockTypes'
  BY <1>2 DEF Enqueue, pendVars
<1>3. ASSUME NEW a \in Actions, NEW x \in {"queued", "rejected"}, Tell(a, x), step' = [step EXCEPT ![a] = "done"],
             UNCHANGED <<ask, order, pendVars>>
      PROVE DockTypes'
  <2>1. told' \in [Actions -> Seq(Results)]
    BY <1>3 DEF Tell
  <2> QED
    BY <1>3, <2>1 DEF pendVars
<1>4. ASSUME NEW a \in Actions, Answer(a) \/ Reject(a) PROVE DockTypes'
  BY <1>3, <1>4 DEF Answer, Reject
<1>5. ASSUME NEW a \in Actions, ActionOverdue(a) PROVE DockTypes'
  BY <1>5 DEF ActionOverdue, dockVars
<1>6. CASE DrainExpired
  <2>1. told' \in [Actions -> Seq(Results)]
    BY <1>6 DEF DrainExpired
  <2> QED
    BY <1>6, <2>1 DEF DrainExpired
<1>7. CASE Unload
  BY <1>7 DEF Unload, dockVars
<1>8. CASE ReadSnapshot
  <2>1. told' \in [Actions -> Seq(Results)]
    BY <1>8 DEF ReadSnapshot
  <2>2. statusIds' \in Seq(Actions)
    BY <1>8 DEF ReadSnapshot
  <2> QED
    BY <1>8, <2>1, <2>2 DEF ReadSnapshot
<1>9. CASE UNCHANGED <<dockVars, pendVars>>
  BY <1>9 DEF dockVars, pendVars
<1> QED
  BY <1>1, <1>2, <1>4, <1>5, <1>6, <1>7, <1>8, <1>9, DockMoves DEF vars

LEMMA AskIsItem ==
  ASSUME NEW x \in Ask PROVE x.key # "status" => x \in Item
  BY DEF Ask

LEMMA QueueTyped ==
  ASSUME NEW q \in Seq(Item), NEW x \in Item PROVE QueueSetSetting(q, x) \in Seq(Item)
<1> DEFINE same == {i \in DOMAIN q : q[i].key = x.key}
           first == CHOOSE i \in same : \A j \in same : i <= j
<1>1. QueueSetSetting(q, x) = IF same = {} THEN Append(q, x) ELSE [q EXCEPT ![first] = x]
  BY Zenon DEF QueueSetSetting
<1> HIDE DEF first
<1>2. [q EXCEPT ![first] = x] \in Seq(Item)
  <2>1. CASE first \in 1..Len(q)
    BY <2>1, ExceptSeq
  <2>2. CASE first \notin 1..Len(q)
    <3>1. [q EXCEPT ![first] = x] = q
      BY <2>2
    <3> QED
      BY <3>1
  <2> QED
    BY <2>1, <2>2
<1> QED
  BY <1>1, <1>2

LEMMA WorkTyped ==
  ASSUME SyncTypes, [Next]_vars PROVE WorkTypes'
<1> USE DEF SyncTypes, WorkTypes
<1>1. ASSUME NEW a \in Actions, Enqueue(a) PROVE WorkTypes'
  <2>1. ask[a] \in Ask /\ step[a] = "queue"
    BY <1>1 DEF Enqueue, DockTypes
  <2>2. ask[a].key # "status" => ask[a] \in Item
    BY <2>1, AskIsItem
  <2>3. ask[a].key \in Settings => ask[a] \in Item /\ QueueSetSetting(setQ, ask[a]) \in Seq(Item)
    BY <2>2, QueueTyped, SettingsAssumption
  <2>4. UNCHANGED <<batch, client>>
    BY <1>1 DEF Enqueue, workVars
  <2>5. modeQ' \in Seq(Item)
    <3>1. modeQ' = modeQ \/ (ask[a] \in Item /\ modeQ' = <<ask[a]>>)
      BY <1>1, <2>2 DEF Enqueue, QueueSetMode
    <3>2. ask[a] \in Item => <<ask[a]>> \in Seq(Item)
      OBVIOUS
    <3> QED
      BY <3>1, <3>2
  <2>6. setQ' \in Seq(Item)
    BY <1>1, <2>3 DEF Enqueue
  <2> QED
    BY <2>4, <2>5, <2>6
<1>2. CASE StopClient \/ Connect \/ Top
  BY <1>2 DEF StopClient, Connect, Top, queueVars
<1>3. CASE Drain
  <2>1. modeQ' \in Seq(Item) /\ setQ' \in Seq(Item) /\ batch' \in Seq(Item)
    <3>1. <<>> \in Seq(Item)
      OBVIOUS
    <3> QED
      BY <1>3, <3>1 DEF Drain
  <2>2. client' \in {"set", "status"} \/ (client' \in {"send_mode", "send_set"} /\ batch' # <<>>)
    BY <1>3 DEF Drain, AfterSend
  <2> QED
    BY <2>1, <2>2
<1>4. CASE SendItem
  <2>1. batch' = Tail(batch) /\ batch # <<>> /\ client \in {"send_mode", "send_set"} /\ UNCHANGED <<modeQ, setQ>>
    BY <1>4 DEF SendItem, queueVars
  <2>2. client' \in {"set", "status"} \/ (client' = client /\ batch' # <<>>)
    BY <1>4 DEF SendItem, AfterSend
  <2>3. batch' \in Seq(Item)
    BY <2>1
  <2> QED
    BY <2>1, <2>2, <2>3
<1>5. CASE Requeue
  <2>1. /\ modeQ' = modeQ \/ modeQ' = batch \o modeQ
        /\ setQ' = setQ \/ setQ' = batch \o setQ
        /\ batch' = <<>> /\ client' \in {"set", "status"}
    BY <1>5 DEF Requeue, AfterSend
  <2>2. batch \o modeQ \in Seq(Item) /\ batch \o setQ \in Seq(Item) /\ <<>> \in Seq(Item)
    OBVIOUS
  <2>3. modeQ' \in Seq(Item) /\ setQ' \in Seq(Item) /\ batch' \in Seq(Item)
    BY <2>1, <2>2
  <2> QED
    BY <2>1, <2>3
<1>6. CASE SendStatus \/ ReadSnapshot \/ ReadNothing
  BY <1>6 DEF SendStatus, ReadSnapshot, ReadNothing, NextRound, queueVars
<1>7. CASE UNCHANGED <<modeQ, setQ, batch, client, requeued>>
  BY <1>7
<1> QED
  BY <1>1, <1>2, <1>3, <1>4, <1>5, <1>6, <1>7, WorkMoves DEF vars, queueVars, workVars

LEMMA NoOverridesIsSnap == NoOverrides \in Snap
  BY DEF NoOverrides, Snap

\* Reading a frame, and pushing a snapshot.
LEMMA FrameRead ==
  ASSUME WireTypes, NEW x, CoreRead(x)
  PROVE cmd # <<>> /\ cmd' = Tail(cmd) /\ cmd' \in Seq(Frame) /\ Head(cmd) \in Frame /\ Head(cmd).type = x /\ InSession
  BY DEF WireTypes, CoreRead

LEMMA Pushed ==
  ASSUME WireTypes, NEW ov \in Snap, Push(ov)
  PROVE /\ evt' \in Seq(Snap) /\ evt' # <<>> /\ evt'[Len(evt')] \in Snap
        /\ \A t \in Targets : ov[t] # Unset => evt'[Len(evt')][t] = ov[t]
<1>1. PICK snap \in Snapshots(ov) : evt' = Append(evt, snap)
  BY DEF Push
<1>2. snap \in Snap /\ \A t \in Targets : ov[t] # Unset => snap[t] = ov[t]
  BY SnapshotsAre
<1>3. evt \in Seq(Snap)
  BY DEF WireTypes
<1>4. evt' \in Seq(Snap) /\ evt' # <<>> /\ evt'[Len(evt')] = snap
  BY <1>1, <1>2, <1>3
<1> QED
  BY <1>2, <1>4

LEMMA SetFrame ==
  ASSUME NEW x \in Item PROVE [type |-> "set", key |-> x.key, val |-> x.val] \in Frame
  BY DEF Item, Frame

\* What a set frame makes of the overrides.
LEMMA Applied ==
  ASSUME WireTypes, CoreRead("set")
  PROVE Head(cmd).key \in Targets /\ Head(cmd).val \in Values /\ [overrides EXCEPT ![Head(cmd).key] = Head(cmd).val] \in Snap
<1>1. Head(cmd) \in Frame /\ Head(cmd).type = "set"
  BY FrameRead
<1>2. Head(cmd) \in [type: {"set"}, key: Targets, val: Values]
  BY <1>1 DEF Frame
<1>3. Head(cmd).key \in Targets /\ Head(cmd).val \in Values
  BY <1>2
<1> QED
  BY <1>3 DEF WireTypes, Snap

LEMMA WireTyped ==
  ASSUME SyncTypes, [Next]_vars PROVE WireTypes'
<1>0. WireTypes
  BY DEF SyncTypes
<1> USE DEF pipeVars, coreVars, viewVars
<1>1. CASE Connect
  BY <1>0, <1>1, NoOverridesIsSnap DEF Connect, WireTypes
<1>2. ASSUME NEW f \in Frame, cmd' = cmd \/ cmd' = Append(cmd, f), UNCHANGED <<evt, core, overrides, view, themed>> PROVE WireTypes'
  BY <1>0, <1>2 DEF WireTypes
<1>3. [type |-> "hello"] \in Frame /\ [type |-> "status"] \in Frame
  BY DEF Frame
<1>4. CASE Top
  <2>1. CASE cmd' = Append(cmd, [type |-> "hello"])
    BY <1>2, <1>3, <1>4, <2>1 DEF Top
  <2>2. CASE cmd' # Append(cmd, [type |-> "hello"])
    BY <1>2, <1>3, <1>4, <2>2 DEF Top, Send
  <2> QED
    BY <2>1, <2>2
<1>5. CASE SendItem
  <2>1. Head(batch) \in Item
    BY <1>5 DEF SendItem, SyncTypes, WorkTypes
  <2> QED
    BY <1>2, <1>5, <2>1, SetFrame DEF SendItem, Send
<1>6. CASE SendStatus
  BY <1>2, <1>3, <1>6 DEF SendStatus, Send
<1>7. CASE ReadSnapshot
  BY <1>0, <1>7 DEF ReadSnapshot, WireTypes
<1>8. ASSUME EndSession, cmd' \in Seq(Frame), UNCHANGED <<evt, view, themed>> PROVE WireTypes'
  BY <1>0, <1>8, NoOverridesIsSnap DEF EndSession, WireTypes
<1>9. CASE CoreHello
  <2>1. cmd' \in Seq(Frame) /\ UNCHANGED <<evt, view, themed>>
    BY <1>0, <1>9, FrameRead DEF CoreHello
  <2> QED
    BY <1>0, <1>8, <1>9, <2>1 DEF CoreHello, WireTypes
<1>10. CASE CoreStatus
  <2>1. cmd' \in Seq(Frame) /\ UNCHANGED <<view, themed>>
    BY <1>0, <1>10, FrameRead DEF CoreStatus
  <2>2. overrides \in Snap
    BY <1>0 DEF WireTypes
  <2>3. Push(overrides) => evt' \in Seq(Snap)
    BY <1>0, <2>2, Pushed
  <2> QED
    BY <1>0, <1>8, <1>10, <2>1, <2>3 DEF CoreStatus, WireTypes
<1>11. CASE CoreSet
  <2> DEFINE new == [overrides EXCEPT ![Head(cmd).key] = Head(cmd).val]
  <2>1. cmd' \in Seq(Frame) /\ UNCHANGED <<view, themed>>
    BY <1>0, <1>11, FrameRead DEF CoreSet
  <2>2. new \in Snap
    BY <1>0, <1>11, Applied DEF CoreSet
  <2>3. Push(new) => evt' \in Seq(Snap)
    BY <1>0, <2>2, Pushed
  <2>4. \/ UNCHANGED <<core, overrides, evt>>
        \/ overrides' = new /\ Push(new) /\ UNCHANGED core
        \/ EndSession /\ UNCHANGED evt
    BY <1>11 DEF CoreSet
  <2> HIDE DEF new
  <2> QED
    BY <1>0, <1>8, <2>1, <2>2, <2>3, <2>4 DEF WireTypes
<1>12. CASE CorePush
  <2>1. overrides \in Snap /\ cmd \in Seq(Frame)
    BY <1>0 DEF WireTypes
  <2>2. Push(overrides) => evt' \in Seq(Snap)
    BY <1>0, <2>1, Pushed
  <2> QED
    BY <1>0, <1>8, <1>12, <2>1, <2>2 DEF CorePush, WireTypes
<1>13. CASE EndSession /\ UNCHANGED <<pipeVars, client, view, fresh, themed>>
  BY <1>0, <1>8, <1>13 DEF WireTypes
<1>14. CASE ThemeRead \/ ThemeEmit \/ Unload \/ StopClient
  BY <1>0, <1>14, NoOverridesIsSnap DEF ThemeRead, ThemeEmit, Unload, StopClient, WireTypes
<1>15. CASE UNCHANGED <<pipeVars, coreVars, view, fresh, themed>>
  BY <1>0, <1>15 DEF WireTypes
<1> QED
  BY <1>1, <1>4, <1>5, <1>6, <1>7, <1>9, <1>10, <1>11, <1>12, <1>13, <1>14, <1>15, WireMoves DEF vars

\* The variables keep their types.
THEOREM SyncTyped == Spec => []SyncTypes
<1>1. Init => SyncTypes
  BY NoOverridesIsSnap DEF Init, SyncTypes, DockTypes, WorkTypes, WireTypes
<1>2. SyncTypes /\ [Next]_vars => SyncTypes'
  BY DockTyped, WorkTyped, WireTyped DEF SyncTypes
<1> QED
  BY <1>1, <1>2, PTL DEF Spec

-----------------------------------------------------------------------------
\* Ends of actions.

\* One more result.
LEMMA EndsGrow ==
  ASSUME NEW r \in Seq(Results), NEW x \in Results
  PROVE /\ x \notin Terminal => Ends(Append(r, x)) = Ends(r)
        /\ x \in Terminal /\ Ends(r) = {} => \A i, j \in Ends(Append(r, x)) : i = j
<1> DEFINE q == Append(r, x)
<1>1. /\ DOMAIN r = 1..Len(r) /\ Len(r) \in Nat /\ DOMAIN q = 1..Len(r) + 1
      /\ q[Len(r) + 1] = x /\ \A i \in 1..Len(r) : q[i] = r[i]
  OBVIOUS
<1> HIDE DEF q
<1>2. DOMAIN q = DOMAIN r \cup {Len(r) + 1} /\ Len(r) + 1 \notin DOMAIN r
  BY <1>1
<1>3. \A i \in DOMAIN r : q[i] = r[i]
  BY <1>1
<1>4. q[Len(r) + 1] = x
  BY <1>1
<1>5. /\ x \notin Terminal => Ends(q) = Ends(r)
      /\ x \in Terminal /\ Ends(r) = {} => \A i, j \in Ends(q) : i = j
  BY <1>2, <1>3, <1>4 DEF Ends
<1> QED
  BY <1>5 DEF q

\* An action that the step tells nothing ...
LEMMA EndOkSame ==
  ASSUME NEW a \in Actions, EndOk(a), told'[a] = told[a], step'[a] = "new" => step[a] = "new",
         a \in waiting' => a \in waiting, Listed(statusIds', a) => Listed(statusIds, a)
  PROVE EndOk(a)'
  BY DEF EndOk

\* ... or that it is queued ...
LEMMA EndOkQueued ==
  ASSUME SyncTypes, NEW a \in Actions, EndOk(a), told'[a] = Append(told[a], "queued"), step'[a] # "new",
         UNCHANGED <<waiting, statusIds>>
  PROVE EndOk(a)'
<1>1. told[a] \in Seq(Results) /\ "queued" \in Results /\ "queued" \notin Terminal
  BY DEF SyncTypes, DockTypes, Results, Terminal
<1>2. Ends(told'[a]) = Ends(told[a])
  BY <1>1, EndsGrow
<1> QED
  BY <1>2 DEF EndOk

\* ... or its end.
LEMMA EndOkEnded ==
  ASSUME SyncTypes, NEW a \in Actions, Ends(told[a]) = {}, NEW x \in Terminal, told'[a] = Append(told[a], x), step'[a] # "new",
         a \notin waiting', ~Listed(statusIds', a)
  PROVE EndOk(a)'
<1>1. told[a] \in Seq(Results) /\ x \in Results
  BY DEF SyncTypes, DockTypes, Results
<1>2. \A i, j \in Ends(told'[a]) : i = j
  BY <1>1, EndsGrow
<1> QED
  BY <1>2 DEF EndOk

\* Lists of actions: one more, one less.
LEMMA ListGrows ==
  ASSUME NEW ids \in Seq(Actions), NEW a \in Actions, Distinct(ids), ~Listed(ids, a)
  PROVE Distinct(Append(ids, a)) /\ \A b \in Actions : Listed(Append(ids, a), b) => b = a \/ Listed(ids, b)
  BY DEF Distinct, Listed

LEMMA ListShrinks ==
  ASSUME NEW ids \in Seq(Actions), Distinct(ids), ids # <<>>
  PROVE /\ Distinct(Tail(ids)) /\ Head(ids) \in Actions /\ Listed(ids, Head(ids)) /\ ~Listed(Tail(ids), Head(ids))
        /\ \A b \in Actions : Listed(Tail(ids), b) => Listed(ids, b)
<1>1. /\ Len(Tail(ids)) = Len(ids) - 1 /\ Len(ids) \in Nat \ {0} /\ DOMAIN ids = 1..Len(ids) /\ DOMAIN Tail(ids) = 1..(Len(ids) - 1)
      /\ \A i \in 1..(Len(ids) - 1) : Tail(ids)[i] = ids[i + 1]
      /\ Head(ids) = ids[1] /\ ids[1] \in Actions
  OBVIOUS
<1> QED
  BY <1>1 DEF Distinct, Listed

LEMMA EndStep ==
  ASSUME SyncTypes, EndInv, [Next]_vars PROVE EndInv'
<1>0. waiting \subseteq Actions /\ overdue \subseteq waiting /\ statusIds \in Seq(Actions) /\ step \in [Actions -> {"new", "queue", "answer", "done"}]
      /\ told \in [Actions -> Seq(Results)]
  BY DEF SyncTypes, DockTypes
<1>1. ASSUME NEW a \in Actions, NEW req \in Ask, Track(a, req) PROVE EndInv'
  <2>1. step[a] = "new" /\ step' = [step EXCEPT ![a] = "queue"] /\ told' = told
    BY <1>1 DEF Track
  <2>2. EndOk(a) /\ Ends(told[a]) = {}
    BY <2>1 DEF EndInv, EndOk, Ends
  <2>3. CASE req.key = "status"
    <3>1. statusIds' = Append(statusIds, a) /\ waiting' = waiting
      BY <1>1, <2>3 DEF Track
    <3>2. Distinct(statusIds') /\ \A b \in Actions : Listed(statusIds', b) => b = a \/ Listed(statusIds, b)
      BY <1>0, <2>1, <2>2, <3>1, ListGrows DEF EndInv, EndOk
    <3>3. EndOk(a)'
      BY <1>0, <2>1, <2>2, <3>1 DEF EndOk
    <3>4. ASSUME NEW b \in Actions, b # a PROVE EndOk(b)'
      BY <1>0, <2>1, <3>1, <3>2, <3>4, EndOkSame DEF EndInv
    <3> QED
      BY <3>2, <3>3, <3>4 DEF EndInv
  <2>4. CASE req.key # "status"
    <3>1. statusIds' = statusIds /\ waiting' = waiting \cup {a}
      BY <1>1, <2>4 DEF Track
    <3>2. EndOk(a)'
      BY <1>0, <2>1, <2>2, <3>1 DEF EndOk
    <3>3. ASSUME NEW b \in Actions, b # a PROVE EndOk(b)'
      BY <1>0, <2>1, <3>1, <3>3, EndOkSame DEF EndInv
    <3> QED
      BY <3>1, <3>2, <3>3 DEF EndInv
  <2> QED
    BY <2>3, <2>4
<1>2. ASSUME NEW a \in Actions, Enqueue(a) \/ ActionOverdue(a) PROVE EndInv'
  <2>1. UNCHANGED <<told, waiting, statusIds>> /\ \A b \in Actions : step'[b] = "new" => step[b] = "new"
    BY <1>0, <1>2 DEF Enqueue, ActionOverdue, pendVars, dockVars
  <2> QED
    BY <2>1, EndOkSame DEF EndInv
<1>3. ASSUME NEW a \in Actions, Answer(a) PROVE EndInv'
  <2>1. UNCHANGED <<waiting, statusIds>> /\ step' = [step EXCEPT ![a] = "done"] /\ told' = [told EXCEPT ![a] = Append(@, "queued")]
    BY <1>3 DEF Answer, pendVars, Tell
  <2>2. EndOk(a)'
    BY <1>0, <2>1, EndOkQueued DEF EndInv
  <2>3. ASSUME NEW b \in Actions, b # a PROVE EndOk(b)'
    BY <1>0, <2>1, <2>3, EndOkSame DEF EndInv
  <2> QED
    BY <2>1, <2>2, <2>3 DEF EndInv
<1>4. ASSUME NEW a \in Actions, Reject(a) PROVE EndInv'
  <2>1. /\ UNCHANGED <<waiting, statusIds>> /\ step' = [step EXCEPT ![a] = "done"] /\ told' = [told EXCEPT ![a] = Append(@, "rejected")]
        /\ step[a] = "new"
    BY <1>4 DEF Reject, pendVars, Tell
  <2>2. Ends(told[a]) = {} /\ a \notin waiting /\ ~Listed(statusIds, a)
    BY <2>1 DEF EndInv, EndOk, Ends
  <2>3. EndOk(a)'
    BY <1>0, <2>1, <2>2, EndOkEnded DEF Terminal
  <2>4. ASSUME NEW b \in Actions, b # a PROVE EndOk(b)'
    BY <1>0, <2>1, <2>4, EndOkSame DEF EndInv
  <2> QED
    BY <2>1, <2>3, <2>4 DEF EndInv
<1>5. ASSUME NEW D \in SUBSET Actions, NEW x \in Terminal, UNCHANGED step,
             told' = [a \in Actions |-> IF a \in D THEN Append(told[a], x) ELSE told[a]],
             \A a \in D : a \in waiting \/ Listed(statusIds, a),
             waiting' \subseteq waiting \ D, Distinct(statusIds'),
             \A a \in Actions : Listed(statusIds', a) => Listed(statusIds, a) /\ a \notin D
      PROVE EndInv'
  <2>1. ASSUME NEW a \in D PROVE EndOk(a)'
    <3>1. EndOk(a) /\ Ends(told[a]) = {} /\ step[a] # "new"
      BY <1>5, <2>1 DEF EndInv, EndOk
    <3>2. told'[a] = Append(told[a], x) /\ a \notin waiting' /\ ~Listed(statusIds', a) /\ step'[a] # "new"
      BY <1>5, <2>1, <3>1
    <3> QED
      BY <2>1, <3>1, <3>2, EndOkEnded
  <2>2. ASSUME NEW a \in Actions \ D PROVE EndOk(a)'
    BY <1>5, <2>2, EndOkSame DEF EndInv
  <2> QED
    BY <1>5, <2>1, <2>2 DEF EndInv
<1>6. CASE DrainExpired
  <2>1. \A a \in Actions : Listed(statusIds, a) => a \notin overdue
    BY <1>0 DEF EndInv, EndOk
  <2>2. /\ UNCHANGED <<step, statusIds>> /\ waiting' = waiting \ overdue
        /\ told' = [a \in Actions |-> IF a \in overdue THEN Append(told[a], "failed") ELSE told[a]]
    BY <1>6 DEF DrainExpired
  <2>3. "failed" \in Terminal /\ overdue \in SUBSET Actions /\ Distinct(statusIds')
    BY <1>0, <2>2 DEF Terminal, EndInv
  <2> QED
    BY <1>0, <1>5, <2>1, <2>2, <2>3
<1>7. CASE Unload
  <2>1. UNCHANGED <<step, told>> /\ waiting' = {} /\ statusIds' = <<>>
    BY <1>7 DEF Unload, dockVars
  <2>2. Distinct(statusIds') /\ \A a \in Actions : ~Listed(statusIds', a)
    BY <2>1 DEF Distinct, Listed
  <2> QED
    BY <2>1, <2>2, EndOkSame DEF EndInv
<1>8. CASE ReadSnapshot
  <2> DEFINE S == Shown(Head(evt))
             D == S \cup (IF statusIds = <<>> THEN {} ELSE {Head(statusIds)})
  <2>1. /\ UNCHANGED step /\ waiting' = waiting \ S /\ statusIds' = IF statusIds = <<>> THEN <<>> ELSE Tail(statusIds)
        /\ told' = [a \in Actions |-> IF a \in D THEN Append(told[a], "completed") ELSE told[a]]
    BY <1>8 DEF ReadSnapshot
  <2>2. S \subseteq waiting
    BY DEF Shown
  <2> HIDE DEF S
  <2>3. "completed" \in Terminal
    BY DEF Terminal
  <2>4. \A a \in Actions : ~(a \in waiting /\ Listed(statusIds, a))
    BY DEF EndInv, EndOk
  <2>5. Distinct(statusIds) /\ \A a \in Actions : ~Listed(<<>>, a)
    BY DEF EndInv, Listed
  <2>6. D \in SUBSET Actions /\ \A a \in D : a \in waiting \/ Listed(statusIds, a)
    BY <1>0, <2>2, <2>5, ListShrinks
  <2>7. Distinct(statusIds') /\ \A a \in Actions : Listed(statusIds', a) => Listed(statusIds, a) /\ a \notin D
    <3>1. CASE statusIds = <<>>
      BY <2>1, <2>2, <2>4, <2>5, <3>1
    <3>2. CASE statusIds # <<>>
      BY <1>0, <2>1, <2>2, <2>4, <2>5, <3>2, ListShrinks
    <3> QED
      BY <3>1, <3>2
  <2>8. waiting' \subseteq waiting \ D
    <3>1. statusIds # <<>> => Head(statusIds) \notin waiting
      BY <1>0, <2>4, <2>5, ListShrinks
    <3> QED
      BY <2>1, <3>1
  <2> HIDE DEF D
  <2> QED
    BY <1>5, <2>1, <2>3, <2>6, <2>7, <2>8
<1>9. CASE UNCHANGED <<dockVars, pendVars>>
  BY <1>9, EndOkSame DEF EndInv, dockVars, pendVars
<1> QED
  BY <1>1, <1>2, <1>3, <1>4, <1>6, <1>7, <1>8, <1>9, DockMoves DEF vars

\* A pending action has no end yet: whatever ends it takes it off its list.
THEOREM EndInvariant == Spec => [](SyncTypes /\ EndInv)
<1>1. Init => EndInv
  BY DEF Init, EndInv, EndOk, Ends, Distinct, Listed
<1>2. SyncTypes /\ EndInv /\ [Next]_vars => EndInv'
  BY EndStep
<1> QED
  BY <1>1, <1>2, SyncTyped, PTL DEF Spec

LEMMA AtMostOne ==
  ASSUME NEW S, \A x, y \in S : x = y PROVE Cardinality(S) <= 1
<1>1. CASE S = {}
  BY <1>1, FS_EmptySet
<1>2. CASE S # {}
  <2>1. PICK x \in S : S = {x}
    BY <1>2
  <2> QED
    BY <2>1, FS_Singleton
<1> QED
  BY <1>1, <1>2

LEMMA EndInvOne == EndInv => OneTerminalResult
  BY AtMostOne DEF EndInv, EndOk, OneTerminalResult, Ends

\* The dock is told one end of an action at most, whichever of the worker's
\* snapshot and the OBS thread's timeout gets to it first.
THEOREM OneEnd == Spec => []OneTerminalResult
  BY EndInvariant, EndInvOne, PTL

-----------------------------------------------------------------------------
\* What the dock shows.

LEMMA PushShows ==
  ASSUME WireTypes, NEW ov \in Snap, Push(ov), overrides' = ov PROVE ShowInv'
<1>1. evt' # <<>> /\ Shows(overrides', evt'[Len(evt')])
  BY Pushed DEF Shows
<1> QED
  BY <1>1 DEF ShowInv

LEMMA NoneShown ==
  ASSUME EndSession PROVE ShowInv'
  BY DEF EndSession, ShowInv, InSession

LEMMA ShowKept ==
  ASSUME ShowInv, UNCHANGED <<evt, overrides, view>>, InSession' => InSession, ClientOpen' => ClientOpen, fresh' => fresh
  PROVE ShowInv'
  BY DEF ShowInv

LEMMA ShowStep ==
  ASSUME SyncTypes, ShowInv, [Next]_vars PROVE ShowInv'
<1>0. WireTypes /\ overrides \in Snap /\ evt \in Seq(Snap)
  BY DEF SyncTypes, WireTypes
<1> USE DEF pipeVars, coreVars, viewVars, workVars
<1>1. CASE Connect
  BY <1>1 DEF Connect, ShowInv
<1>2. CASE Top \/ SendItem \/ SendStatus
  <2>1. UNCHANGED <<evt, overrides, core, view, fresh>> /\ ClientOpen
    BY <1>2 DEF Top, SendItem, SendStatus, ClientOpen
  <2> QED
    BY <2>1, ShowKept DEF InSession
<1>3. CASE ReadSnapshot
  <2>1. evt # <<>> /\ evt' = Tail(evt) /\ view' = Head(evt) /\ UNCHANGED <<core, overrides>> /\ ClientOpen
    BY <1>3 DEF ReadSnapshot, ClientOpen
  <2>2. evt' # <<>> => evt'[Len(evt')] = evt[Len(evt)]
    BY <1>0, <2>1
  <2>3. evt' = <<>> => view' = evt[Len(evt)]
    <3>1. Len(evt') = Len(evt) - 1 /\ Len(evt) \in Nat /\ Head(evt) = evt[1]
      BY <1>0, <2>1
    <3>2. evt' = <<>> => Len(evt') = 0
      OBVIOUS
    <3> QED
      BY <2>1, <3>1, <3>2
  <2>4. InSession' => Shows(overrides, evt[Len(evt)])
    BY <2>1 DEF ShowInv, InSession
  <2>5. ASSUME InSession' PROVE (evt' # <<>> => Shows(overrides', evt'[Len(evt')])) /\ (evt' = <<>> => Shows(overrides', view'))
    BY <2>1, <2>2, <2>3, <2>4, <2>5
  <2> QED
    BY <2>5 DEF ShowInv
<1>4. CASE CoreHello
  <2>1. EndSession \/ (UNCHANGED <<evt, overrides, view, client, fresh>> /\ InSession)
    BY <1>4 DEF CoreHello, CoreRead
  <2>2. ASSUME UNCHANGED <<evt, overrides, view, client, fresh>>, InSession PROVE ShowInv'
    BY <2>2 DEF ShowInv, ClientOpen
  <2> QED
    BY <2>1, <2>2, NoneShown
<1>5. CASE CoreStatus \/ CorePush
  <2>1. EndSession \/ (Push(overrides) /\ overrides' = overrides)
    BY <1>5 DEF CoreStatus, CorePush
  <2> QED
    BY <1>0, <2>1, NoneShown, PushShows
<1>6. CASE CoreSet
  <2> DEFINE new == [overrides EXCEPT ![Head(cmd).key] = Head(cmd).val]
  <2>1. new \in Snap
    BY <1>0, <1>6, Applied DEF CoreSet
  <2>2. EndSession \/ (overrides' = new /\ Push(new)) \/ UNCHANGED <<evt, overrides, view, client, fresh, core>>
    BY <1>6 DEF CoreSet
  <2> HIDE DEF new
  <2> QED
    BY <1>0, <2>1, <2>2, NoneShown, PushShows, ShowKept DEF ClientOpen, InSession
<1>7. CASE ThemeEmit
  <2>1. fresh' = (fresh /\ view' = view) /\ UNCHANGED <<evt, overrides, client, core>>
    BY <1>7 DEF ThemeEmit
  <2>2. CASE fresh'
    BY <2>1, <2>2, ShowKept DEF ClientOpen, InSession
  <2>3. CASE ~fresh'
    BY <2>1, <2>3 DEF ShowInv, ClientOpen, InSession
  <2> QED
    BY <2>2, <2>3
<1>8. CASE Unload
  <2>1. ~fresh' /\ UNCHANGED <<evt, overrides, client, core>>
    BY <1>8 DEF Unload
  <2> QED
    BY <2>1 DEF ShowInv, ClientOpen, InSession
<1>9. CASE StopClient
  BY <1>9 DEF StopClient, ShowInv, ClientOpen
<1>10. CASE ThemeRead
  BY <1>10, ShowKept DEF ThemeRead, ClientOpen, InSession
<1>11. CASE UNCHANGED <<pipeVars, coreVars, view, fresh, themed>> /\ (ClientOpen' => ClientOpen)
  BY <1>11, ShowKept DEF InSession
<1>12. CASE UNCHANGED vars
  BY <1>12, ShowKept DEF vars, ClientOpen, InSession
<1>13. CASE EndSession
  BY <1>13, NoneShown
<1> HIDE DEF pipeVars, coreVars, viewVars, workVars
<1>14. CASE Next
  BY <1>1, <1>2, <1>3, <1>4, <1>5, <1>6, <1>7, <1>8, <1>9, <1>10, <1>11, <1>13, <1>14, WireMoves
<1> QED
  BY <1>12, <1>14

\* The last snapshot of a session has every override, under way or shown.
THEOREM ShowInvariant == Spec => []ShowInv
<1>1. Init => ShowInv
  BY DEF Init, ShowInv, InSession
<1>2. SyncTypes /\ ShowInv /\ [Next]_vars => ShowInv'
  BY ShowStep
<1> QED
  BY <1>1, <1>2, SyncTyped, PTL DEF Spec

LEMMA ShowInvView == ShowInv => ViewIsCurrent
  BY DEF ShowInv, ViewIsCurrent, Shows

\* A dock that shows the last snapshot of its session shows every override the
\* core holds.
THEOREM ViewShowsOverrides == Spec => []ViewIsCurrent
  BY ShowInvariant, ShowInvView, PTL

-----------------------------------------------------------------------------
\* Requests on their way: what the queue operations do to a line.

LEMMA LastNotLacks ==
  ASSUME NEW q, NEW t, NEW v, LastIs(q, t, v) PROVE ~Lacks(q, t)
  BY DEF LastIs, Lacks

LEMMA CmdLastNotLacks ==
  ASSUME NEW c, NEW t, NEW v, CmdLast(c, t, v) PROVE ~CmdLacks(c, t)
  BY DEF CmdLast, CmdLacks

LEMMA EmptyLacks == \A t : Lacks(<<>>, t) /\ CmdLacks(<<>>, t)
  BY DEF Lacks, CmdLacks

LEMMA TailOf ==
  ASSUME NEW S, NEW q \in Seq(S), q # <<>>
  PROVE /\ Len(q) \in Nat \ {0} /\ DOMAIN q = 1..Len(q) /\ DOMAIN Tail(q) = 1..(Len(q) - 1) /\ Head(q) = q[1]
        /\ \A i \in 1..(Len(q) - 1) : Tail(q)[i] = q[i + 1]
  OBVIOUS

LEMMA LacksTail ==
  ASSUME NEW q \in Seq(Item), q # <<>>, NEW t, NEW v
  PROVE /\ Lacks(q, t) => Lacks(Tail(q), t) /\ Head(q).key # t
        /\ LastIs(q, t, v) => LastIs(Tail(q), t, v) \/ (Lacks(Tail(q), t) /\ Head(q).key = t /\ Head(q).val = v)
<1> DEFINE r == Tail(q)
           h == Head(q)
           n == Len(q)
<1>1. n \in Nat \ {0} /\ DOMAIN q = 1..n /\ DOMAIN r = 1..(n - 1) /\ h = q[1] /\ \A i \in 1..(n - 1) : r[i] = q[i + 1]
  BY TailOf
<1> HIDE DEF r, h, n
<1>2. Lacks(q, t) => Lacks(r, t) /\ h.key # t
  BY <1>1 DEF Lacks
<1>3. ASSUME LastIs(q, t, v) PROVE LastIs(r, t, v) \/ (Lacks(r, t) /\ h.key = t /\ h.val = v)
  <2>1. PICK i \in 1..n : q[i].key = t /\ q[i].val = v /\ \A j \in 1..n : j > i => q[j].key # t
    BY <1>1, <1>3 DEF LastIs
  <2>2. CASE i = 1
    BY <1>1, <2>1, <2>2 DEF Lacks
  <2>3. CASE i # 1
    <3>1. i - 1 \in 1..(n - 1) /\ r[i - 1] = q[i]
      BY <1>1, <2>3
    <3>2. \A j \in 1..(n - 1) : j > i - 1 => r[j].key # t
      BY <1>1, <2>1
    <3> QED
      BY <1>1, <2>1, <3>1, <3>2 DEF LastIs
  <2> QED
    BY <2>2, <2>3
<1> QED
  BY <1>2, <1>3 DEF r, h

LEMMA CmdTail ==
  ASSUME NEW q \in Seq(Frame), q # <<>>, NEW t, NEW v
  PROVE /\ CmdLacks(q, t) => CmdLacks(Tail(q), t) /\ ~Sets(Head(q), t)
        /\ CmdLast(q, t, v) => CmdLast(Tail(q), t, v) \/ (CmdLacks(Tail(q), t) /\ Sets(Head(q), t) /\ Head(q).val = v)
<1> DEFINE r == Tail(q)
           h == Head(q)
           n == Len(q)
<1>1. n \in Nat \ {0} /\ DOMAIN q = 1..n /\ DOMAIN r = 1..(n - 1) /\ h = q[1] /\ \A i \in 1..(n - 1) : r[i] = q[i + 1]
  BY TailOf
<1> HIDE DEF r, h, n
<1>2. CmdLacks(q, t) => CmdLacks(r, t) /\ ~Sets(h, t)
  BY <1>1 DEF CmdLacks
<1>3. ASSUME CmdLast(q, t, v) PROVE CmdLast(r, t, v) \/ (CmdLacks(r, t) /\ Sets(h, t) /\ h.val = v)
  <2>1. PICK i \in 1..n : Sets(q[i], t) /\ q[i].val = v /\ \A j \in 1..n : j > i => ~Sets(q[j], t)
    BY <1>1, <1>3 DEF CmdLast
  <2>2. CASE i = 1
    BY <1>1, <2>1, <2>2 DEF CmdLacks
  <2>3. CASE i # 1
    <3>1. i - 1 \in 1..(n - 1) /\ r[i - 1] = q[i]
      BY <1>1, <2>3
    <3>2. \A j \in 1..(n - 1) : j > i - 1 => ~Sets(r[j], t)
      BY <1>1, <2>1
    <3> QED
      BY <1>1, <2>1, <3>1, <3>2 DEF CmdLast
  <2> QED
    BY <2>2, <2>3
<1> QED
  BY <1>2, <1>3 DEF r, h

\* A frame that sets nothing.
LEMMA CmdGrows ==
  ASSUME NEW c \in Seq(Frame), NEW f \in Frame, f.type # "set", NEW t, NEW v
  PROVE (CmdLacks(c, t) <=> CmdLacks(Append(c, f), t)) /\ (CmdLast(c, t, v) => CmdLast(Append(c, f), t, v))
<1> DEFINE q == Append(c, f)
           n == Len(c)
<1>1. n \in Nat /\ DOMAIN c = 1..n /\ DOMAIN q = 1..(n + 1) /\ q[n + 1] = f /\ \A i \in 1..n : q[i] = c[i]
  OBVIOUS
<1> HIDE DEF q, n
<1>2. ~Sets(f, t)
  BY DEF Sets
<1>3. \A i \in 1..(n + 1) : i \in 1..n \/ i = n + 1
  BY <1>1
<1>4. CmdLacks(c, t) <=> CmdLacks(q, t)
  BY <1>1, <1>2, <1>3 DEF CmdLacks
<1>5. CmdLast(c, t, v) => CmdLast(q, t, v)
  BY <1>1, <1>2, <1>3 DEF CmdLast
<1> QED
  BY <1>4, <1>5 DEF q

LEMMA LacksConcat ==
  ASSUME NEW b \in Seq(Item), NEW q \in Seq(Item), NEW t, NEW v
  PROVE /\ Lacks(b \o q, t) <=> Lacks(b, t) /\ Lacks(q, t)
        /\ LastIs(q, t, v) => LastIs(b \o q, t, v)
        /\ Lacks(q, t) /\ LastIs(b, t, v) => LastIs(b \o q, t, v)
<1> DEFINE r == b \o q
           m == Len(b)
           n == Len(q)
<1>1. /\ m \in Nat /\ n \in Nat /\ DOMAIN b = 1..m /\ DOMAIN q = 1..n /\ DOMAIN r = 1..(m + n)
      /\ \A i \in 1..(m + n) : r[i] = IF i <= m THEN b[i] ELSE q[i - m]
  OBVIOUS
<1> HIDE DEF r, m, n
<1>2. \A i \in 1..m : i \in 1..(m + n) /\ r[i] = b[i]
  BY <1>1
<1>3. \A i \in 1..n : m + i \in 1..(m + n) /\ r[m + i] = q[i]
  BY <1>1
<1>4. \A i \in 1..(m + n) : i \in 1..m \/ (i - m \in 1..n /\ r[i] = q[i - m])
  BY <1>1
<1>5. Lacks(r, t) <=> Lacks(b, t) /\ Lacks(q, t)
  <2>1. Lacks(r, t) => Lacks(b, t)
    BY <1>1, <1>2 DEF Lacks
  <2>2. Lacks(r, t) => Lacks(q, t)
    BY <1>1, <1>3 DEF Lacks
  <2>3. ASSUME Lacks(b, t), Lacks(q, t), NEW i \in 1..(m + n) PROVE r[i].key # t
    BY <1>1, <1>2, <1>4, <2>3 DEF Lacks
  <2> QED
    BY <1>1, <2>1, <2>2, <2>3 DEF Lacks
<1>6. ASSUME LastIs(q, t, v) PROVE LastIs(r, t, v)
  <2>1. PICK i \in 1..n : q[i].key = t /\ q[i].val = v /\ \A j \in 1..n : j > i => q[j].key # t
    BY <1>1, <1>6 DEF LastIs
  <2>2. \A j \in 1..(m + n) : j > m + i => j - m \in 1..n /\ r[j] = q[j - m] /\ j - m > i
    BY <1>1
  <2>3. m + i \in 1..(m + n) /\ r[m + i] = q[i]
    BY <1>3
  <2> QED
    BY <1>1, <2>1, <2>2, <2>3 DEF LastIs
<1>7. ASSUME Lacks(q, t), LastIs(b, t, v) PROVE LastIs(r, t, v)
  <2>1. PICK i \in 1..m : b[i].key = t /\ b[i].val = v /\ \A j \in 1..m : j > i => b[j].key # t
    BY <1>1, <1>7 DEF LastIs
  <2>2. \A j \in 1..n : q[j].key # t
    BY <1>1, <1>7 DEF Lacks
  <2>3. \A j \in 1..(m + n) : j > i => r[j].key # t
    BY <1>2, <1>4, <2>1, <2>2
  <2> QED
    BY <1>1, <1>2, <2>1, <2>3 DEF LastIs
<1> QED
  BY <1>5, <1>6, <1>7 DEF r

\* A set of positions has a first one.
LEMMA LeastOf ==
  ASSUME NEW S \in SUBSET Nat, S # {} PROVE \E x \in S : \A y \in S : x <= y
<1>1. PICK x \in S : \A y \in S : ~(<<y, x>> \in OpToRel(<, Nat))
  BY NatLessThanWellFounded, WFMin, Zenon
<1>2. \A y \in S : x \in Nat /\ y \in Nat /\ ~(y < x)
  BY <1>1 DEF OpToRel
<1> QED
  BY <1>2

\* QueueSetSettingRequest: one entry for the key, with its value, where entries
\* had distinct keys; the other keys keep their entries.
LEMMA SettingQueued ==
  ASSUME NEW q \in Seq(Item), NEW x \in Item
  PROVE LET r == QueueSetSetting(q, x) IN
        /\ \A K : Of(q, K) /\ x.key \in K => Of(r, K)
        /\ OneEach(q) => OneEach(r) /\ LastIs(r, x.key, x.val)
        /\ \A t, v : t # x.key => (Lacks(q, t) <=> Lacks(r, t)) /\ (LastIs(q, t, v) => LastIs(r, t, v))
<1> DEFINE same == {i \in DOMAIN q : q[i].key = x.key}
           first == CHOOSE i \in same : \A j \in same : i <= j
           r == QueueSetSetting(q, x)
           n == Len(q)
<1>0. n \in Nat /\ DOMAIN q = 1..n
  OBVIOUS
<1>1. r = IF same = {} THEN Append(q, x) ELSE [q EXCEPT ![first] = x]
  BY Zenon DEF QueueSetSetting
<1>2. CASE same = {}
  <2>1. DOMAIN r = 1..(n + 1) /\ r[n + 1] = x /\ \A i \in 1..n : r[i] = q[i]
    BY <1>1, <1>2
  <2>2. \A i \in 1..n : q[i].key # x.key
    BY <1>0, <1>2
  <2>3. \A i \in 1..(n + 1) : i \in 1..n \/ i = n + 1
    BY <1>0
  <2> HIDE DEF r, same, first, n
  <2>4. \A K : Of(q, K) /\ x.key \in K => Of(r, K)
    BY <1>0, <2>1, <2>3 DEF Of
  <2>5. OneEach(q) => OneEach(r)
    BY <1>0, <2>1, <2>2, <2>3 DEF OneEach
  <2>6. LastIs(r, x.key, x.val)
    <3>1. n + 1 \in 1..(n + 1) /\ \A j \in 1..(n + 1) : ~(j > n + 1)
      BY <1>0
    <3> QED
      BY <2>1, <3>1 DEF LastIs
  <2>7. ASSUME NEW t, NEW v, t # x.key
        PROVE (Lacks(q, t) <=> Lacks(r, t)) /\ (LastIs(q, t, v) => LastIs(r, t, v))
    <3>1. 1..n \subseteq 1..(n + 1)
      BY <1>0
    <3>2. Lacks(q, t) <=> Lacks(r, t)
      BY <1>0, <2>1, <2>3, <2>7, <3>1 DEF Lacks
    <3>3. LastIs(q, t, v) => LastIs(r, t, v)
      BY <1>0, <2>1, <2>3, <2>7, <3>1 DEF LastIs
    <3> QED
      BY <3>2, <3>3
  <2> QED
    BY <2>4, <2>5, <2>6, <2>7 DEF r
<1>3. CASE same # {}
  <2>1. first \in same
    <3>1. same \subseteq Nat /\ same # {}
      BY <1>3
    <3>2. \E i \in same : \A j \in same : i <= j
      BY <1>0, <3>1, LeastOf
    <3> QED
      BY <3>2, Zenon
  <2>2. r = [q EXCEPT ![first] = x]
    BY <1>1, <1>3
  <2>3. first \in 1..n /\ q[first].key = x.key
    BY <1>0, <2>1
  <2> HIDE DEF r, same, first, n
  <2>4. DOMAIN r = 1..n /\ r[first] = x /\ \A i \in 1..n : i # first => r[i] = q[i]
    BY <1>0, <2>2, <2>3
  <2>5. \A i \in 1..n : r[i].key = q[i].key
    BY <2>3, <2>4
  <2>6. \A K : Of(q, K) /\ x.key \in K => Of(r, K)
    BY <1>0, <2>4, <2>5 DEF Of
  <2>7. OneEach(q) => OneEach(r)
    BY <1>0, <2>4, <2>5 DEF OneEach
  <2>8. OneEach(q) => LastIs(r, x.key, x.val)
    <3>1. \A j \in 1..n : j > first => j # first
      BY <1>0, <2>3
    <3> QED
      BY <1>0, <2>3, <2>4, <3>1 DEF OneEach, LastIs
  <2>9. ASSUME NEW t, NEW v, t # x.key
        PROVE (Lacks(q, t) <=> Lacks(r, t)) /\ (LastIs(q, t, v) => LastIs(r, t, v))
    <3>1. Lacks(q, t) <=> Lacks(r, t)
      BY <1>0, <2>4, <2>5 DEF Lacks
    <3>2. ASSUME LastIs(q, t, v) PROVE LastIs(r, t, v)
      <4>1. PICK i \in 1..n : q[i].key = t /\ q[i].val = v /\ \A j \in 1..n : j > i => q[j].key # t
        BY <1>0, <3>2 DEF LastIs
      <4>2. r[i] = q[i]
        BY <2>3, <2>4, <2>9, <4>1
      <4> QED
        BY <2>4, <2>5, <4>1, <4>2 DEF LastIs
    <3> QED
      BY <3>1, <3>2
  <2> QED
    BY <2>6, <2>7, <2>8, <2>9 DEF r
<1> QED
  BY <1>2, <1>3

\* A request queued last is the newest one.
LEMMA LineQueued ==
  ASSUME NEW q, NEW b, NEW c, NEW h, NEW t, NEW v, LastIs(q, t, v) PROVE Line(q, b, c, h, t, v)
  BY LastNotLacks DEF Line

\* A queue that says the same of t.
LEMMA LineOther ==
  ASSUME NEW q, NEW b, NEW c, NEW h, NEW t, NEW v, Line(q, b, c, h, t, v), NEW r,
         Lacks(q, t) <=> Lacks(r, t), LastIs(q, t, v) => LastIs(r, t, v)
  PROVE Line(r, b, c, h, t, v)
  BY DEF Line

\* The queue is taken as the batch, or another one is.
LEMMA LineDrained ==
  ASSUME NEW q, NEW c, NEW h, NEW t, NEW v, Line(q, <<>>, c, h, t, v)
  PROVE Line(<<>>, q, c, h, t, v) /\ \A b : Lacks(b, t) => Line(q, b, c, h, t, v)
  BY EmptyLacks DEF Line

\* The first of the batch goes into the empty pipe.
LEMMA LineSent ==
  ASSUME NEW q, NEW b \in Seq(Item), b # <<>>, NEW h, NEW t, NEW v, Line(q, b, <<>>, h, t, v)
  PROVE Line(q, Tail(b), Append(<<>>, [type |-> "set", key |-> Head(b).key, val |-> Head(b).val]), h, t, v)
<1> DEFINE f == [type |-> "set", key |-> Head(b).key, val |-> Head(b).val]
           c == Append(<<>>, f)
<1>1. DOMAIN c = {1} /\ c[1] = f
  OBVIOUS
<1>2. f.type = "set" /\ f.key = Head(b).key /\ f.val = Head(b).val
  OBVIOUS
<1> HIDE DEF c, f
<1>3. CmdLacks(c, t) <=> Head(b).key # t
  BY <1>1, <1>2 DEF CmdLacks, Sets
<1>4. Head(b).key = t /\ Head(b).val = v => CmdLast(c, t, v)
  <2>1. \A j \in DOMAIN c : ~(j > 1)
    BY <1>1
  <2> QED
    BY <1>1, <1>2, <2>1 DEF CmdLast, Sets
<1>5. CmdLacks(<<>>, t)
  BY EmptyLacks
<1>6. /\ Lacks(b, t) => Lacks(Tail(b), t) /\ Head(b).key # t
      /\ LastIs(b, t, v) => LastIs(Tail(b), t, v) \/ (Lacks(Tail(b), t) /\ Head(b).key = t /\ Head(b).val = v)
  BY LacksTail
<1>7. (LastIs(b, t, v) => ~Lacks(b, t)) /\ (LastIs(Tail(b), t, v) => ~Lacks(Tail(b), t))
  BY LastNotLacks
<1>8. Line(q, Tail(b), c, h, t, v)
  BY <1>3, <1>4, <1>5, <1>6, <1>7 DEF Line
<1> QED
  BY <1>8 DEF c, f

\* The batch goes back in front of its queue, or of another one.
LEMMA LineRequeued ==
  ASSUME NEW q \in Seq(Item), NEW b \in Seq(Item), NEW c, NEW h, NEW t, NEW v, Line(q, b, c, h, t, v)
  PROVE Line(b \o q, <<>>, c, h, t, v) /\ (Lacks(b, t) => Line(q, <<>>, c, h, t, v))
<1>1. /\ Lacks(b \o q, t) <=> Lacks(b, t) /\ Lacks(q, t)
      /\ LastIs(q, t, v) => LastIs(b \o q, t, v)
      /\ Lacks(q, t) /\ LastIs(b, t, v) => LastIs(b \o q, t, v)
  BY LacksConcat
<1> QED
  BY <1>1, EmptyLacks DEF Line

\* A frame that sets nothing is sent.
LEMMA LineGrows ==
  ASSUME NEW q, NEW b, NEW c \in Seq(Frame), NEW f \in Frame, f.type # "set", NEW h, NEW t, NEW v, Line(q, b, c, h, t, v)
  PROVE Line(q, b, Append(c, f), h, t, v)
<1>1. (CmdLacks(c, t) <=> CmdLacks(Append(c, f), t)) /\ (CmdLast(c, t, v) => CmdLast(Append(c, f), t, v))
  BY CmdGrows
<1> QED
  BY <1>1 DEF Line

\* The core reads a frame.
LEMMA LineRead ==
  ASSUME NEW q, NEW b, NEW c \in Seq(Frame), c # <<>>, NEW h, NEW t, NEW v, Line(q, b, c, h, t, v)
  PROVE Line(q, b, Tail(c), IF Sets(Head(c), t) THEN Head(c).val ELSE h, t, v)
<1>1. /\ CmdLacks(c, t) => CmdLacks(Tail(c), t) /\ ~Sets(Head(c), t)
      /\ CmdLast(c, t, v) => CmdLast(Tail(c), t, v) \/ (CmdLacks(Tail(c), t) /\ Sets(Head(c), t) /\ Head(c).val = v)
  BY CmdTail
<1>2. CmdLast(Tail(c), t, v) => ~CmdLacks(Tail(c), t)
  BY CmdLastNotLacks
<1> QED
  BY <1>1, <1>2 DEF Line

\* A session ends, and another one begins.
LEMMA LineEnds ==
  ASSUME NEW q, NEW b, NEW c, NEW h, NEW t, NEW v, Line(q, b, c, h, t, v)
  PROVE Line(q, b, c, Unset, t, v) /\ (b = <<>> => Line(q, b, <<>>, Unset, t, v))
  BY EmptyLacks DEF Line

-----------------------------------------------------------------------------
\* The newest request.

\* The steps by what they have to do with requests on their way.
Quiet ==
  /\ UNCHANGED <<modeQ, setQ, batch, requeued>>
  /\ \/ UNCHANGED <<cmd, core, overrides>>
     \/ (\E f \in {[type |-> "hello"], [type |-> "status"]} : cmd' = Append(cmd, f)) /\ UNCHANGED <<core, overrides>>
     \/ CoreRead("hello") /\ UNCHANGED overrides
     \/ CoreRead("status") /\ UNCHANGED overrides
     \/ EndSession /\ UNCHANGED cmd
     \/ EndSession /\ (CoreRead("hello") \/ CoreRead("status"))

LEMMA LineMoves ==
  ASSUME Next
  PROVE \/ \E a \in Actions : Enqueue(a)
        \/ Connect \/ Drain \/ SendItem \/ Requeue \/ CoreSet \/ Quiet
<1> USE DEF queueVars, workVars, pipeVars, coreVars
<1>1. CASE \E a \in Actions : Submit(a) \/ Reject(a) \/ ActionOverdue(a)
  BY <1>1 DEF Submit, Track, Answer, Reject, ActionOverdue, Quiet
<1>2. CASE Top \/ SendStatus
  BY <1>2 DEF Top, SendStatus, Send, Quiet
<1>3. CASE ReadSnapshot \/ ReadNothing
  BY <1>3 DEF ReadSnapshot, ReadNothing, Quiet
<1>4. CASE CoreHello \/ CoreStatus
  BY <1>4 DEF CoreHello, CoreStatus, Quiet
<1>5. CASE CoreEof \/ CorePush \/ SessionLost
  BY <1>5 DEF CoreEof, CorePush, SessionLost, Quiet
<1>6. CASE DrainExpired \/ ThemeRead \/ ThemeEmit \/ Unload \/ StopClient
  BY <1>6 DEF DrainExpired, ThemeRead, ThemeEmit, Unload, StopClient, Quiet
<1> QED
  BY <1>1, <1>2, <1>3, <1>4, <1>5, <1>6 DEF Next, ClientStep, CoreReads

LEMMA OrderStep ==
  ASSUME SyncTypes, OrderInv, [Next]_vars PROVE OrderInv'
<1>0. order \in Seq(Actions) /\ step \in [Actions -> {"new", "queue", "answer", "done"}] /\ ask \in [Actions -> Ask \cup {NoAsk}]
      /\ \A a \in Actions : step[a] = "queue" => ask[a] \in Ask
  BY DEF SyncTypes, DockTypes
<1>1. \A i \in DOMAIN order : order[i] \in Actions
  BY <1>0
<1>2. ASSUME NEW a \in Actions, NEW req \in Ask, Track(a, req) PROVE OrderInv'
  BY <1>0, <1>1, <1>2 DEF Track, OrderInv
<1>3. ASSUME NEW a \in Actions, Answer(a) \/ Reject(a) PROVE OrderInv'
  BY <1>0, <1>1, <1>3 DEF Answer, Reject, OrderInv
<1>4. ASSUME NEW a \in Actions, Enqueue(a) PROVE OrderInv'
  <2>1. step[a] = "queue" /\ step' = [step EXCEPT ![a] = "answer"] /\ order' = Append(order, a) /\ ask' = ask
    BY <1>4 DEF Enqueue
  <2>2. ASSUME NEW i \in DOMAIN order' PROVE order'[i] = a \/ (i \in DOMAIN order /\ order'[i] = order[i])
    BY <1>0, <2>1, <2>2
  <2> QED
    BY <1>0, <1>1, <2>1, <2>2 DEF OrderInv
<1>5. CASE UNCHANGED <<step, order, ask>>
  BY <1>5 DEF OrderInv
<1>6. ASSUME NEW a \in Actions, ActionOverdue(a) PROVE OrderInv'
  BY <1>5, <1>6 DEF ActionOverdue, dockVars
<1>7. CASE DrainExpired \/ Unload \/ ReadSnapshot \/ UNCHANGED <<dockVars, pendVars>>
  BY <1>5, <1>7 DEF DrainExpired, Unload, ReadSnapshot, dockVars
<1> QED
  BY <1>2, <1>3, <1>4, <1>5, <1>6, <1>7, DockMoves DEF vars, dockVars

LEMMA OfEmpty == OneEach(<<>>) /\ \A K : Of(<<>>, K)
  BY DEF OneEach, Of

LEMMA OfConcat ==
  ASSUME NEW b \in Seq(Item), NEW q \in Seq(Item), NEW K, Of(b, K), Of(q, K) PROVE Of(b \o q, K)
<1>1. \A i \in 1..(Len(b) + Len(q)) : i \in 1..Len(b) \/ i - Len(b) \in 1..Len(q)
  OBVIOUS
<1>2. DOMAIN (b \o q) = 1..(Len(b) + Len(q)) /\ \A i \in 1..(Len(b) + Len(q)) : (b \o q)[i] = IF i <= Len(b) THEN b[i] ELSE q[i - Len(b)]
  OBVIOUS
<1> QED
  BY <1>1, <1>2 DEF Of

LEMMA OfTail ==
  ASSUME NEW q \in Seq(Item), q # <<>>, NEW K, Of(q, K) PROVE Of(Tail(q), K)
  BY TailOf DEF Of

LEMMA QueueStep ==
  ASSUME SyncTypes, QueueInv, [Next]_vars PROVE QueueInv'
<1>0. /\ modeQ \in Seq(Item) /\ setQ \in Seq(Item) /\ batch \in Seq(Item)
      /\ client \in {"send_mode", "send_set"} => batch # <<>>
  BY DEF SyncTypes, WorkTypes
<1> USE DEF queueVars, workVars
<1>1. ASSUME NEW a \in Actions, Enqueue(a) PROVE QueueInv'
  <2>1. UNCHANGED <<batch, client, requeued>>
    BY <1>1 DEF Enqueue
  <2>2. CASE UNCHANGED <<modeQ, setQ>>
    BY <2>1, <2>2 DEF QueueInv
  <2>3. CASE ask[a].key = "mode" /\ modeQ' = QueueSetMode(modeQ, ask[a]) /\ UNCHANGED setQ
    <3>1. Of(modeQ', {"mode"})
      BY <2>3 DEF QueueSetMode, Of
    <3> QED
      BY <2>1, <2>3, <3>1 DEF QueueInv
  <2>4. CASE ask[a].key \in Settings /\ setQ' = QueueSetSetting(setQ, ask[a]) /\ UNCHANGED modeQ
    <3>1. ask[a] \in Ask
      BY <1>1 DEF Enqueue, SyncTypes, DockTypes
    <3>2. ask[a] \in Item
      BY <2>4, <3>1, AskIsItem, SettingsAssumption
    <3>3. (Of(setQ, Settings) => Of(setQ', Settings)) /\ (OneEach(setQ) => OneEach(setQ'))
      BY <1>0, <2>4, <3>2, SettingQueued
    <3> QED
      BY <2>1, <2>4, <3>3 DEF QueueInv
  <2> QED
    BY <1>1, <2>2, <2>3, <2>4 DEF Enqueue
<1>2. CASE StopClient
  BY <1>2 DEF StopClient, QueueInv
<1>3. CASE Connect \/ Top \/ SendStatus \/ ReadSnapshot \/ ReadNothing
  <2>1. UNCHANGED <<modeQ, setQ, batch, requeued>> /\ client \in {"down", "top", "status", "read"}
        /\ client' \notin {"send_mode", "send_set"}
    BY <1>3 DEF Connect, Top, SendStatus, ReadSnapshot, ReadNothing, NextRound
  <2> QED
    BY <2>1 DEF QueueInv
<1>4. CASE Drain
  <2>1. CASE client = "mode"
    <3>1. /\ batch' = modeQ /\ modeQ' = <<>> /\ UNCHANGED <<setQ, requeued>>
          /\ client' = "send_mode" \/ (client' = "set" /\ batch' = <<>>)
      BY <1>4, <2>1 DEF Drain, AfterSend
    <3> QED
      BY <3>1, OfEmpty DEF QueueInv
  <2>2. CASE client = "set"
    <3>1. /\ batch' = setQ /\ setQ' = <<>> /\ UNCHANGED <<modeQ, requeued>>
          /\ client' = "send_set" \/ (client' = "status" /\ batch' = <<>>)
      BY <1>4, <2>2 DEF Drain, AfterSend
    <3> QED
      BY <3>1, OfEmpty DEF QueueInv
  <2> QED
    BY <1>4, <2>1, <2>2 DEF Drain
<1>5. CASE SendItem
  <2>1. /\ batch # <<>> /\ batch' = Tail(batch) /\ UNCHANGED <<modeQ, setQ, requeued>> /\ client \in {"send_mode", "send_set"}
        /\ (client' = client /\ batch' # <<>>) \/ (client' \in {"set", "status"} /\ batch' = <<>>)
    BY <1>0, <1>5 DEF SendItem, AfterSend
  <2>2. \A K : Of(batch, K) => Of(batch', K)
    BY <1>0, <2>1, OfTail
  <2> QED
    BY <2>1, <2>2 DEF QueueInv
<1>6. CASE Requeue
  <2>1. batch' = <<>> /\ client' \in {"set", "status"}
    BY <1>6 DEF Requeue, AfterSend
  <2>2. CASE client = "send_mode"
    <3>1. modeQ' = batch \o modeQ /\ UNCHANGED <<setQ, requeued>>
      BY <1>6, <2>2 DEF Requeue
    <3>2. Of(modeQ', {"mode"})
      BY <1>0, <2>2, <3>1, OfConcat DEF QueueInv
    <3> QED
      BY <2>1, <3>1, <3>2 DEF QueueInv
  <2>3. CASE client = "send_set"
    <3>1. setQ' = batch \o setQ /\ requeued' = TRUE /\ UNCHANGED modeQ
      BY <1>6, <2>3 DEF Requeue
    <3>2. Of(setQ', Settings)
      BY <1>0, <2>3, <3>1, OfConcat DEF QueueInv
    <3> QED
      BY <2>1, <3>1, <3>2 DEF QueueInv
  <2> QED
    BY <1>6, <2>2, <2>3 DEF Requeue
<1>7. CASE UNCHANGED <<modeQ, setQ, batch, client, requeued>>
  BY <1>7 DEF QueueInv
<1> QED
  BY <1>1, <1>2, <1>3, <1>4, <1>5, <1>6, <1>7, WorkMoves DEF vars

\* Only queueing a request makes another one the newest.
LEMMA NewestKept ==
  ASSUME SyncTypes, OrderInv, [Next]_vars, NEW b \in Actions, Newest(b)', order' = order
  PROVE Newest(b) /\ ask'[b] = ask[b]
<1>0. order \in Seq(Actions) /\ \A i \in DOMAIN order : order[i] \in Actions
  BY DEF SyncTypes, DockTypes
<1>1. \A i \in DOMAIN order : ask'[order[i]] = ask[order[i]]
  <2>1. ASSUME NEW a \in Actions, NEW req \in Ask, Track(a, req)
        PROVE \A i \in DOMAIN order : ask'[order[i]] = ask[order[i]]
    <3>1. step[a] = "new" /\ ask' = [ask EXCEPT ![a] = req]
      BY <2>1 DEF Track
    <3>2. \A i \in DOMAIN order : order[i] # a
      BY <3>1 DEF OrderInv
    <3> QED
      BY <1>0, <3>1, <3>2 DEF SyncTypes, DockTypes
  <2>2. (\E a \in Actions, req \in Ask : Track(a, req)) \/ ask' = ask
    BY DockMoves DEF Enqueue, Answer, Reject, ActionOverdue, DrainExpired, Unload, ReadSnapshot, vars, dockVars
  <2> QED
    BY <2>1, <2>2
<1>2. PICK i \in DOMAIN order : order[i] = b /\ \A j \in DOMAIN order : j > i => ask'[order[j]].key # ask'[b].key
  BY DEF Newest
<1>3. ask'[b] = ask[b]
  BY <1>1, <1>2
<1>4. \A j \in DOMAIN order : j > i => ask[order[j]].key # ask[b].key
  BY <1>1, <1>2, <1>3
<1> QED
  BY <1>2, <1>3, <1>4 DEF Newest

LEMMA NewestQueued ==
  ASSUME SyncTypes, NEW a \in Actions, Enqueue(a), NEW b \in Actions, Newest(b)', b # a
  PROVE Newest(b) /\ ask[b].key # ask[a].key
<1>0. order \in Seq(Actions) /\ order' = Append(order, a) /\ ask' = ask
  BY DEF SyncTypes, DockTypes, Enqueue
<1> DEFINE n == Len(order)
<1>1. n \in Nat /\ DOMAIN order = 1..n /\ DOMAIN order' = 1..(n + 1) /\ order'[n + 1] = a /\ \A i \in 1..n : order'[i] = order[i]
  BY <1>0
<1> HIDE DEF n
<1>2. PICK i \in 1..(n + 1) : order'[i] = b /\ \A j \in 1..(n + 1) : j > i => ask[order'[j]].key # ask[b].key
  BY <1>0, <1>1 DEF Newest
<1>3. i \in 1..n /\ n + 1 \in 1..(n + 1) /\ n + 1 > i /\ 1..n \subseteq 1..(n + 1)
  BY <1>1, <1>2
<1>4. order[i] = b /\ ask[a].key # ask[b].key
  BY <1>1, <1>2, <1>3
<1>5. \A j \in 1..n : j > i => ask[order[j]].key # ask[b].key
  BY <1>1, <1>2, <1>3
<1> QED
  BY <1>1, <1>3, <1>4, <1>5 DEF Newest

LEMMA KeysLack ==
  ASSUME NEW q, NEW K, Of(q, K), NEW t, t \notin K PROVE Lacks(q, t)
  BY DEF Of, Lacks

\* A step that queues nothing new takes the newest request along, and behind it
\* nothing that overtakes it.
LEMMA HoldsKept ==
  ASSUME SyncTypes, QueueInv, NEW t \in Targets, NEW v, Holds(t, v), t = "mode" \/ ~requeued',
         Connect \/ Drain \/ SendItem \/ Requeue \/ CoreSet \/ Quiet
  PROVE Holds(t, v)'
<1>0. /\ modeQ \in Seq(Item) /\ setQ \in Seq(Item) /\ batch \in Seq(Item) /\ cmd \in Seq(Frame) /\ overrides \in Snap
      /\ client \in {"send_mode", "send_set"} => batch # <<>>
  BY DEF SyncTypes, WorkTypes, WireTypes
<1>1. Line(Queue(t), batch, cmd, Held(t), t, v)
  BY DEF Holds
<1>2. SUFFICES Line(Queue(t)', batch', cmd', Held(t)', t, v)
  BY DEF Holds
<1>3. Line(Queue(t), batch, cmd, Unset, t, v)
  BY <1>1, LineEnds
<1>4. ~InSession' => Held(t)' = Unset
  BY DEF Held
<1>5. overrides' = overrides /\ (InSession' <=> InSession) => Held(t)' = Held(t)
  BY DEF Held
<1> USE DEF queueVars, workVars, pipeVars, coreVars
<1>6. CASE Connect
  <2>1. UNCHANGED <<modeQ, setQ, batch>> /\ cmd' = <<>> /\ overrides' = NoOverrides /\ client = "down"
    BY <1>6 DEF Connect
  <2>2. Held(t)' = Unset /\ Queue(t)' = Queue(t) /\ batch = <<>>
    BY <2>1 DEF Held, NoOverrides, Queue, QueueInv
  <2> QED
    BY <1>1, <2>1, <2>2, LineEnds
<1>7. CASE Drain
  <2>1. batch = <<>> /\ UNCHANGED <<cmd, core, overrides>>
    BY <1>7 DEF Drain, QueueInv
  <2>2. Held(t)' = Held(t)
    BY <1>5, <2>1 DEF InSession
  <2>3. Line(<<>>, Queue(t), cmd, Held(t), t, v) /\ \A b : Lacks(b, t) => Line(Queue(t), b, cmd, Held(t), t, v)
    BY <1>1, <2>1, LineDrained
  <2>4. \/ batch' = modeQ /\ modeQ' = <<>> /\ UNCHANGED setQ
        \/ batch' = setQ /\ setQ' = <<>> /\ UNCHANGED modeQ
    BY <1>7 DEF Drain
  <2>5. (t # "mode" => Lacks(modeQ, t)) /\ (t = "mode" => Lacks(setQ, t))
    BY KeysLack, SettingsAssumption DEF QueueInv
  <2>6. \/ Queue(t)' = <<>> /\ batch' = Queue(t)
        \/ Queue(t)' = Queue(t) /\ Lacks(batch', t)
    BY <2>4, <2>5 DEF Queue
  <2> QED
    BY <2>1, <2>2, <2>3, <2>6
<1>8. CASE SendItem
  <2>1. /\ batch # <<>> /\ batch' = Tail(batch) /\ UNCHANGED <<modeQ, setQ, core, overrides>> /\ cmd = <<>>
        /\ cmd' = Append(cmd, [type |-> "set", key |-> Head(batch).key, val |-> Head(batch).val])
    BY <1>0, <1>8 DEF SendItem, Send, Flushed
  <2>2. Held(t)' = Held(t) /\ Queue(t)' = Queue(t)
    BY <1>5, <2>1 DEF InSession, Queue
  <2> QED
    BY <1>0, <1>1, <2>1, <2>2, LineSent
<1>9. CASE Requeue
  <2>1. batch' = <<>> /\ UNCHANGED <<cmd, core, overrides>>
    BY <1>9 DEF Requeue
  <2>2. Held(t)' = Held(t)
    BY <1>5, <2>1 DEF InSession
  <2>3. Queue(t) \in Seq(Item)
    BY <1>0 DEF Queue
  <2>4. Line(batch \o Queue(t), <<>>, cmd, Held(t), t, v) /\ (Lacks(batch, t) => Line(Queue(t), <<>>, cmd, Held(t), t, v))
    BY <1>0, <1>1, <2>3, LineRequeued
  <2>5. \/ client = "send_mode" /\ modeQ' = batch \o modeQ /\ UNCHANGED setQ
        \/ client = "send_set" /\ UNCHANGED modeQ /\ t = "mode"
    BY <1>9 DEF Requeue
  <2>6. (client = "send_mode" /\ t # "mode" => Lacks(batch, t)) /\ (client = "send_set" /\ t = "mode" => Lacks(batch, t))
    BY KeysLack, SettingsAssumption DEF QueueInv
  <2>7. Queue(t)' = batch \o Queue(t) \/ (Queue(t)' = Queue(t) /\ Lacks(batch, t))
    BY <2>5, <2>6 DEF Queue
  <2> QED
    BY <2>1, <2>2, <2>4, <2>7
<1>10. ASSUME NEW x, CoreRead(x)
       PROVE /\ Line(Queue(t), batch, cmd', IF Sets(Head(cmd), t) THEN Head(cmd).val ELSE Held(t), t, v)
             /\ Line(Queue(t), batch, cmd', Unset, t, v)
  <2>1. cmd # <<>> /\ cmd' = Tail(cmd)
    BY <1>10 DEF CoreRead
  <2>2. Line(Queue(t), batch, cmd', IF Sets(Head(cmd), t) THEN Head(cmd).val ELSE Held(t), t, v)
    BY <1>0, <1>1, <2>1, LineRead
  <2> QED
    BY <2>2, LineEnds
<1>11. CASE CoreSet
  <2>1. CoreRead("set") /\ UNCHANGED <<modeQ, setQ, batch>>
    BY <1>11 DEF CoreSet
  <2>2. Queue(t)' = Queue(t)
    BY <2>1 DEF Queue
  <2>3. Head(cmd).type = "set" /\ Head(cmd).key \in Targets /\ InSession
    BY <2>1, Applied DEF CoreRead, SyncTypes
  <2>4. EndSession \/ (overrides' = [overrides EXCEPT ![Head(cmd).key] = Head(cmd).val] /\ UNCHANGED core)
    BY <1>11 DEF CoreSet
  <2>5. CASE EndSession
    <3>1. Held(t)' = Unset
      BY <1>4, <2>5 DEF EndSession, InSession
    <3> QED
      BY <1>10, <2>1, <2>2, <3>1
  <2>6. CASE overrides' = [overrides EXCEPT ![Head(cmd).key] = Head(cmd).val] /\ UNCHANGED core
    <3>1. overrides'[t] = IF Head(cmd).key = t THEN Head(cmd).val ELSE overrides[t]
      BY <1>0, <2>6 DEF Snap
    <3>2. InSession'
      BY <2>3, <2>6 DEF InSession
    <3>3. Held(t)' = IF Sets(Head(cmd), t) THEN Head(cmd).val ELSE Held(t)
      BY <2>3, <3>1, <3>2 DEF Held, Sets
    <3> QED
      BY <1>10, <2>1, <2>2, <3>3
  <2> QED
    BY <2>4, <2>5, <2>6
<1>12. CASE Quiet
  <2>1. Queue(t)' = Queue(t) /\ batch' = batch
    BY <1>12 DEF Quiet, Queue
  <2>2. CASE UNCHANGED <<cmd, core, overrides>>
    <3>1. Held(t)' = Held(t)
      BY <1>5, <2>2 DEF InSession
    <3> QED
      BY <1>1, <2>1, <2>2, <3>1
  <2>3. CASE (\E f \in {[type |-> "hello"], [type |-> "status"]} : cmd' = Append(cmd, f)) /\ UNCHANGED <<core, overrides>>
    <3>1. Held(t)' = Held(t)
      BY <1>5, <2>3 DEF InSession
    <3>2. PICK f \in Frame : cmd' = Append(cmd, f) /\ f.type # "set"
      BY <2>3 DEF Frame
    <3> QED
      BY <1>0, <1>1, <2>1, <3>1, <3>2, LineGrows
  <2>4. ASSUME NEW x, x # "set", CoreRead(x), UNCHANGED overrides \/ EndSession
        PROVE Line(Queue(t)', batch', cmd', Held(t)', t, v)
    <3>1. InSession /\ ~Sets(Head(cmd), t)
      BY <2>4 DEF CoreRead, Sets
    <3>2. Held(t)' = Held(t) \/ Held(t)' = Unset
      BY <2>4, <3>1 DEF Held, EndSession, InSession
    <3> QED
      BY <1>10, <2>1, <2>4, <3>1, <3>2
  <2>5. CASE EndSession /\ UNCHANGED cmd
    <3>1. Held(t)' = Unset
      BY <1>4, <2>5 DEF EndSession, InSession
    <3> QED
      BY <1>3, <2>1, <2>5, <3>1
  <2> QED
    BY <1>12, <2>2, <2>3, <2>4, <2>5 DEF Quiet
<1> QED
  BY <1>6, <1>7, <1>8, <1>9, <1>11, <1>12

\* Queueing a request makes it the newest for its target and leaves the others.
LEMMA HoldsQueued ==
  ASSUME SyncTypes, QueueInv, NEW a \in Actions, Enqueue(a), NEW t \in Targets, NEW v, t = "mode" \/ ~requeued',
         (ask[a].key = t /\ ask[a].val = v) \/ (ask[a].key # t /\ Holds(t, v))
  PROVE Holds(t, v)'
<1>0. setQ \in Seq(Item) /\ (ask[a].key # "status" => ask[a] \in Item) /\ UNCHANGED <<batch, cmd, core, overrides, requeued>>
  BY AskIsItem DEF SyncTypes, DockTypes, WorkTypes, Enqueue, workVars, pipeVars, coreVars
<1>1. Held(t)' = Held(t)
  BY <1>0 DEF Held, InSession
<1>2. SUFFICES Line(Queue(t)', batch, cmd, Held(t), t, v)
  BY <1>0, <1>1 DEF Holds
<1>3. CASE ask[a].key = t /\ ask[a].val = v
  <2>1. LastIs(Queue(t)', t, v)
    <3>1. CASE t = "mode"
      <4>1. Queue(t)' = <<ask[a]>>
        BY <1>3, <3>1, SettingsAssumption DEF Enqueue, Queue, QueueSetMode
      <4>2. DOMAIN <<ask[a]>> = {1} /\ <<ask[a]>>[1] = ask[a] /\ ~(1 > 1)
        OBVIOUS
      <4>3. LastIs(<<ask[a]>>, t, v)
        BY <1>3, <4>2 DEF LastIs
      <4> QED
        BY <4>1, <4>3
    <3>2. CASE t # "mode"
      <4>1. t \in Settings /\ t # "status"
        BY <3>2, SettingsAssumption DEF Targets
      <4>2. Queue(t)' = QueueSetSetting(setQ, ask[a])
        BY <1>3, <3>2, <4>1 DEF Enqueue, Queue
      <4>3. OneEach(setQ)
        BY <1>0, <3>2 DEF QueueInv
      <4> QED
        BY <1>0, <1>3, <4>1, <4>2, <4>3, SettingQueued
    <3> QED
      BY <3>1, <3>2
  <2> QED
    BY <2>1, LineQueued
<1>4. CASE ask[a].key # t /\ Holds(t, v)
  <2>1. Line(Queue(t), batch, cmd, Held(t), t, v)
    BY <1>4 DEF Holds
  <2>2. Queue(t)' = Queue(t) \/ (ask[a].key \in Settings /\ Queue(t) = setQ /\ Queue(t)' = QueueSetSetting(setQ, ask[a]))
    BY <1>4 DEF Enqueue, Queue
  <2>3. CASE Queue(t)' = Queue(t)
    BY <2>1, <2>3
  <2>4. CASE ask[a].key \in Settings /\ Queue(t) = setQ /\ Queue(t)' = QueueSetSetting(setQ, ask[a])
    <3>1. ask[a] \in Item
      BY <1>0, <2>4, SettingsAssumption
    <3>2. (Lacks(setQ, t) <=> Lacks(QueueSetSetting(setQ, ask[a]), t))
          /\ (LastIs(setQ, t, v) => LastIs(QueueSetSetting(setQ, ask[a]), t, v))
      BY <1>0, <1>4, <3>1, SettingQueued
    <3>3. Line(QueueSetSetting(setQ, ask[a]), batch, cmd, Held(t), t, v)
      BY <2>1, <2>4, <3>2, LineOther
    <3> QED
      BY <2>4, <3>3
  <2> QED
    BY <2>2, <2>3, <2>4
<1> QED
  BY <1>3, <1>4

LEMMA OrderKept ==
  ASSUME Next PROVE (\E a \in Actions : Enqueue(a)) \/ order' = order
  BY DockMoves DEF Track, Answer, Reject, ActionOverdue, DrainExpired, Unload, ReadSnapshot, dockVars

LEMMA HoldStep ==
  ASSUME SyncTypes, LatestInv, [Next]_vars PROVE HoldInv'
<1>1. SUFFICES ASSUME NEW b \in Actions, NEW t \in Targets, NEW v \in Values,
                      Newest(b)', ask'[b].key = t, ask'[b].val = v, t = "mode" \/ ~requeued'
               PROVE Holds(t, v)'
  BY DEF HoldInv
<1>2. ~requeued' => ~requeued
  BY WorkMoves DEF Enqueue, StopClient, Connect, Top, Drain, SendItem, Requeue, SendStatus, ReadSnapshot, ReadNothing, vars
<1>3. ASSUME NEW a \in Actions, Enqueue(a) PROVE Holds(t, v)'
  <2>1. ask' = ask
    BY <1>3 DEF Enqueue
  <2>2. CASE b = a
    BY <1>1, <1>3, <2>1, <2>2, HoldsQueued DEF LatestInv
  <2>3. CASE b # a
    <3>1. Newest(b) /\ ask[b].key # ask[a].key
      BY <1>1, <1>3, <2>3, NewestQueued
    <3>2. Holds(t, v)
      BY <1>1, <1>2, <2>1, <3>1 DEF LatestInv, HoldInv
    <3> QED
      BY <1>1, <1>3, <2>1, <3>1, <3>2, HoldsQueued DEF LatestInv
  <2> QED
    BY <2>2, <2>3
<1>4. ASSUME order' = order PROVE Holds(t, v)
  <2>1. Newest(b) /\ ask'[b] = ask[b]
    BY <1>1, <1>4, NewestKept DEF LatestInv
  <2> QED
    BY <1>1, <1>2, <2>1 DEF LatestInv, HoldInv
<1>5. CASE UNCHANGED vars
  <2>1. Holds(t, v)
    BY <1>4, <1>5 DEF vars, dockVars
  <2> QED
    BY <1>5, <2>1 DEF Holds, Queue, Held, InSession, vars, queueVars, workVars, pipeVars, coreVars
<1>6. ASSUME order' = order, Connect \/ Drain \/ SendItem \/ Requeue \/ CoreSet \/ Quiet PROVE Holds(t, v)'
  BY <1>1, <1>4, <1>6, HoldsKept DEF LatestInv
<1>7. CASE Next
  BY <1>3, <1>6, <1>7, LineMoves, OrderKept
<1> QED
  BY <1>5, <1>7

\* Requests for a target reach the core in the order they were queued, as far
\* as the newest one is concerned.
THEOREM LatestInvariant == Spec => [](SyncTypes /\ LatestInv)
<1>1. Init => LatestInv
  <2>1. Init => OrderInv /\ HoldInv
    BY DEF Init, OrderInv, HoldInv, Newest
  <2>2. Init => QueueInv
    BY OfEmpty DEF Init, QueueInv
  <2> QED
    BY <2>1, <2>2 DEF LatestInv
<1>2. SyncTypes /\ LatestInv /\ [Next]_vars => LatestInv'
  BY OrderStep, QueueStep, HoldStep DEF LatestInv
<1> QED
  BY <1>1, <1>2, SyncTyped, PTL DEF Spec

LEMMA LatestInvHolds == SyncTypes /\ LatestInv => LatestHolds
<1>1. SUFFICES ASSUME SyncTypes, LatestInv, NEW a \in Actions, ask[a].key = "mode" \/ (ask[a].key \in Settings /\ ~requeued),
                      Newest(a), InSession, Drained, overrides[ask[a].key] # Unset
               PROVE overrides[ask[a].key] = ask[a].val
  BY DEF LatestHolds, NewestHolds
<1>2. ask[a] \in Ask
  BY <1>1 DEF Newest, LatestInv, OrderInv
<1>3. ask[a] \in Item
  BY <1>1, <1>2, AskIsItem, SettingsAssumption
<1>4. ask[a].key \in Targets /\ ask[a].val \in Values
  BY <1>3 DEF Item
<1>5. Holds(ask[a].key, ask[a].val)
  BY <1>1, <1>4 DEF LatestInv, HoldInv
<1>6. Queue(ask[a].key) = <<>> /\ batch = <<>> /\ cmd = <<>> /\ Held(ask[a].key) = overrides[ask[a].key]
  BY <1>1 DEF Drained, Queue, Held
<1> QED
  BY <1>1, <1>5, <1>6, EmptyLacks DEF Holds, Line

\* With nothing on its way, the override the core holds for a target is the
\* newest value asked for; of a setting, while no send of a setting has failed.
THEOREM LatestIsHeld == Spec => []LatestHolds
  BY LatestInvariant, LatestInvHolds, PTL
=============================================================================
