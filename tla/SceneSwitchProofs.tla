------------------------- MODULE SceneSwitchProofs -------------------------
(***************************************************************************)
(* Scene switches for any number of posts, dock actions, faults and any    *)
(* capacity of the bus.  Three invariants, one for each hop of a switch:   *)
(*                                                                         *)
(*   TableInv   the core's bus and table of pending switches against the   *)
(*              outcomes reported (OutcomeFinal);                          *)
(*   TruthInv   the results on their way back against what OBS did         *)
(*              (OkMeansSwitched);                                         *)
(*   RouteInv   the queues from the bus to OBS against the order of the    *)
(*              posts (SwitchesInOrder).                                   *)
(***************************************************************************)
EXTENDS SceneSwitch, SequenceTheorems, TLAPS

-----------------------------------------------------------------------------
\* What is in a sequence.

LEMMA ElemsEmpty == Elems(<<>>) = {}
  BY DEF Elems

LEMMA ElemsAppend ==
  ASSUME NEW S, NEW s \in Seq(S), NEW x \in S
  PROVE Append(s, x) \in Seq(S) /\ Elems(Append(s, x)) = Elems(s) \cup {x}
<1>1. /\ Append(s, x) \in Seq(S) /\ Len(Append(s, x)) = Len(s) + 1 /\ DOMAIN Append(s, x) = 1..Len(s) + 1
      /\ \A i \in 1..Len(s) : Append(s, x)[i] = s[i]
      /\ Append(s, x)[Len(s) + 1] = x
  OBVIOUS
<1>2. DOMAIN s = 1..Len(s) /\ Len(s) \in Nat
  OBVIOUS
<1> QED
  BY <1>1, <1>2 DEF Elems

LEMMA ElemsTail ==
  ASSUME NEW S, NEW s \in Seq(S), s # <<>>
  PROVE /\ Tail(s) \in Seq(S) /\ Head(s) \in S /\ Head(s) \in Elems(s)
        /\ Elems(Tail(s)) \subseteq Elems(s)
<1>1. Len(s) \in Nat \ {0} /\ DOMAIN s = 1..Len(s) /\ Head(s) = s[1]
  OBVIOUS
<1>2. Tail(s) \in Seq(S) /\ DOMAIN Tail(s) = 1..Len(s) - 1 /\ \A i \in 1..Len(s) - 1 : Tail(s)[i] = s[i + 1]
  OBVIOUS
<1>3. 1 \in DOMAIN s /\ \A i \in 1..Len(s) - 1 : i + 1 \in DOMAIN s
  BY <1>1
<1> QED
  BY <1>1, <1>2, <1>3 DEF Elems

LEMMA ElemsConcat ==
  ASSUME NEW S, NEW s \in Seq(S), NEW t \in Seq(S)
  PROVE s \o t \in Seq(S) /\ Elems(s \o t) \subseteq Elems(s) \cup Elems(t)
<1>1. s \o t \in Seq(S) /\ Len(s \o t) = Len(s) + Len(t) /\ Len(s) \in Nat /\ Len(t) \in Nat
  OBVIOUS
<1>2. \A i \in 1..Len(s) + Len(t) : (s \o t)[i] = IF i <= Len(s) THEN s[i] ELSE t[i - Len(s)]
  OBVIOUS
<1>3. DOMAIN s = 1..Len(s) /\ DOMAIN t = 1..Len(t) /\ DOMAIN (s \o t) = 1..Len(s) + Len(t)
  BY <1>1
<1>4. ASSUME NEW i \in DOMAIN (s \o t) PROVE (s \o t)[i] \in Elems(s) \cup Elems(t)
  <2>1. CASE i <= Len(s)
    BY <1>1, <1>2, <1>3, <1>4, <2>1 DEF Elems
  <2>2. CASE ~(i <= Len(s))
    <3>1. i - Len(s) \in DOMAIN t /\ (s \o t)[i] = t[i - Len(s)]
      BY <1>1, <1>2, <1>3, <1>4, <2>2
    <3> QED
      BY <3>1 DEF Elems
  <2> QED
    BY <2>1, <2>2
<1> QED
  BY <1>1, <1>4 DEF Elems

-----------------------------------------------------------------------------
\* The core's bus and table, and the outcomes.

Outcomes == {"none", "pending"} \cup Settled
Distinct(s) == \A i, j \in DOMAIN s : i # j => s[i] # s[j]

TableTypes ==
  /\ reply \in [Posts -> {"none", "queued", "unavailable"}]
  /\ outcome \in [Posts -> Outcomes]
  /\ bus \in Seq(Posts) /\ pending \subseteq Posts /\ due \subseteq pending

\* A switch is on the bus, then in the table, then has its outcome; and was posted before.
TableInv ==
  /\ TableTypes
  /\ Distinct(bus)
  /\ \A w \in Elems(bus) : outcome[w] = "none" /\ reply[w] # "none"
  /\ \A w \in pending : outcome[w] = "pending" /\ reply[w] # "none"
  /\ \A w \in Posts : reply[w] = "none" => outcome[w] = "none"

tableView == <<reply, bus, pending, due, outcome>>

\* The steps that touch any of it.
LEMMA TableMoves ==
  ASSUME Next
  PROVE \/ \E w \in Posts : PostSwitch(w) \/ DeadlinePasses(w)
        \/ EndSession /\ UNCHANGED httpVars
        \/ CoreDropEarly \/ CoreEmit \/ CoreExpire \/ CoreReadResult
        \/ UNCHANGED tableView
<1> USE DEF tableView, httpVars, busVars, tableVars
<1>1. CASE CoreStep
  <2>1. CASE CoreLagged \/ CoreDrainDone \/ CoreReadTimeout
    BY <2>1 DEF CoreLagged, CoreDrainDone, CoreReadTimeout
  <2>2. CASE CoreEmitFails \/ CorePushFails \/ CoreReadEof \/ CoreReadBye
    BY <2>2 DEF CoreEmitFails, CorePushFails, CoreReadEof, CoreReadBye
  <2>3. CASE CoreReadHello \/ CoreReadGarbled
    BY <2>3 DEF CoreReadHello, CoreReadGarbled
  <2> QED
    BY <1>1, <2>1, <2>2, <2>3 DEF CoreStep
<1>2. CASE ClientStep
  BY <1>2 DEF ClientStep, Connect, ClientHello, ClientDrain, ClientSendResult, ClientSendNotice, ClientReadSwitch,
       ClientReadTimeout, ClientDisconnected
<1>3. CASE \E d \in DockActions : DockSwitch(d)
  BY <1>3 DEF DockSwitch
<1>4. CASE TickDrain \/ (\E ok \in BOOLEAN : TickSwitch(ok)) \/ Unload \/ StopClient \/ ObsCrash
  BY <1>4 DEF TickDrain, TickSwitch, Unload, StopClient, ObsCrash
<1>5. CASE HeartbeatTimeout \/ CoreReadCut \/ CoreCrash
  BY <1>5 DEF HeartbeatTimeout, CoreReadCut, CoreCrash
<1> QED
  BY <1>1, <1>2, <1>3, <1>4, <1>5 DEF Next

\* Taking the first command off the bus.
LEMMA BusHead ==
  ASSUME TableInv, bus # <<>>
  PROVE /\ Head(bus) \in Posts /\ Head(bus) \in Elems(bus) /\ Tail(bus) \in Seq(Posts)
        /\ Elems(Tail(bus)) \subseteq Elems(bus) \ {Head(bus)} /\ Distinct(Tail(bus))
<1>1. bus \in Seq(Posts) /\ Distinct(bus)
  BY DEF TableInv, TableTypes
<1>2. Tail(bus) \in Seq(Posts) /\ Head(bus) \in Posts /\ Head(bus) \in Elems(bus) /\ Elems(Tail(bus)) \subseteq Elems(bus)
  BY <1>1, ElemsTail
<1>3. DOMAIN bus = 1..Len(bus) /\ DOMAIN Tail(bus) = 1..Len(bus) - 1 /\ Len(bus) \in Nat \ {0} /\ Head(bus) = bus[1]
      /\ \A i \in 1..Len(bus) - 1 : Tail(bus)[i] = bus[i + 1]
  BY <1>1
<1>4. Distinct(Tail(bus))
  BY <1>1, <1>3 DEF Distinct
<1>5. Head(bus) \notin Elems(Tail(bus))
  BY <1>1, <1>3 DEF Distinct, Elems
<1> QED
  BY <1>2, <1>4, <1>5

\* What a step does to the table keeps it in order and takes back no outcome.
Final == \A w \in Posts : outcome[w] \in Settled => outcome'[w] = outcome[w]

LEMMA TableStep ==
  ASSUME TableInv, Next PROVE TableInv' /\ Final
<1> USE DEF Settled, Outcomes
<1>1. ASSUME NEW w \in Posts, PostSwitch(w) PROVE TableInv' /\ Final
  <2>0. reply[w] = "none" /\ outcome[w] = "none" /\ w \notin Elems(bus) /\ w \notin pending
    BY <1>1 DEF PostSwitch, TableInv, TableTypes
  <2>1. CASE ~InSession
    <3>1. reply' = [reply EXCEPT ![w] = "unavailable"] /\ UNCHANGED <<bus, outcome, pending, due>>
      BY <1>1, <2>1 DEF PostSwitch, busVars, tableVars
    <3> QED
      BY <2>0, <3>1 DEF TableInv, TableTypes, Final
  <2>2. ASSUME NEW b \in Seq(Posts), Distinct(b), Elems(b) \subseteq Elems(bus), bus' = Append(b, w),
               reply' = [reply EXCEPT ![w] = "queued"], UNCHANGED <<pending, due>>,
               UNCHANGED outcome \/ \E h \in Elems(bus) \ Elems(b) : outcome' = [outcome EXCEPT ![h] = "discarded"]
        PROVE TableInv' /\ Final
    <3>1. bus' \in Seq(Posts) /\ Elems(bus') = Elems(b) \cup {w}
      BY <2>2, ElemsAppend
    <3>2. Distinct(bus')
      <4>1. w \notin Elems(b)
        BY <2>0, <2>2
      <4>2. DOMAIN b = 1..Len(b) /\ Len(b) \in Nat /\ DOMAIN bus' = 1..Len(b) + 1 /\ bus'[Len(b) + 1] = w
            /\ \A i \in 1..Len(b) : bus'[i] = b[i]
        BY <2>2
      <4>3. \A i \in 1..Len(b) : b[i] # w
        BY <4>1, <4>2 DEF Elems
      <4> QED
        BY <2>2, <4>2, <4>3 DEF Distinct
    <3>3. Elems(bus) \subseteq Posts
      BY DEF TableInv, TableTypes, Elems
    <3>4. /\ outcome' \in [Posts -> Outcomes]
          /\ \A v \in Posts : outcome'[v] = outcome[v] \/ (v \in Elems(bus) \ Elems(b) /\ outcome[v] = "none")
      BY <2>2, <3>3 DEF TableInv, TableTypes
    <3>5. /\ reply' \in [Posts -> {"none", "queued", "unavailable"}]
          /\ \A v \in Posts : reply'[v] = (IF v = w THEN "queued" ELSE reply[v])
      BY <2>2 DEF TableInv, TableTypes
    <3>6. outcome'[w] = "none"
      BY <2>0, <3>4
    <3>7. Final
      BY <3>4 DEF Final
    <3>8. TableTypes'
      BY <2>2, <3>1, <3>4, <3>5 DEF TableInv, TableTypes
    <3>9. \A v \in Elems(bus') : outcome'[v] = "none" /\ reply'[v] # "none"
      BY <2>2, <3>1, <3>3, <3>4, <3>5, <3>6 DEF TableInv
    <3>10. \A v \in pending' : outcome'[v] = "pending" /\ reply'[v] # "none"
      BY <2>2, <3>4, <3>5 DEF TableInv, TableTypes
    <3>11. \A v \in Posts : reply'[v] = "none" => outcome'[v] = "none"
      BY <3>4, <3>5, <3>6 DEF TableInv
    <3> QED
      BY <3>2, <3>7, <3>8, <3>9, <3>10, <3>11 DEF TableInv
  <2>3. CASE InSession
    <3>1. reply' = [reply EXCEPT ![w] = "queued"] /\ UNCHANGED <<pending, due>>
      BY <1>1, <2>3 DEF PostSwitch, tableVars
    <3>2. CASE Len(bus) < BusCap
      <4>1. bus' = Append(bus, w) /\ UNCHANGED outcome
        BY <1>1, <2>3, <3>2 DEF PostSwitch
      <4>2. bus \in Seq(Posts) /\ Distinct(bus)
        BY DEF TableInv, TableTypes
      <4> QED
        BY <2>2, <3>1, <4>1, <4>2
    <3>3. CASE ~(Len(bus) < BusCap)
      <4>1. bus' = Append(Tail(bus), w) /\ outcome' = [outcome EXCEPT ![Head(bus)] = "discarded"]
        BY <1>1, <2>3, <3>3 DEF PostSwitch
      <4>2. bus # <<>>
        BY <3>3, BoundsAssumption
      <4>3. /\ Tail(bus) \in Seq(Posts) /\ Distinct(Tail(bus)) /\ Elems(Tail(bus)) \subseteq Elems(bus)
            /\ Head(bus) \in Elems(bus) \ Elems(Tail(bus))
        BY <4>2, BusHead
      <4> QED
        BY <2>2, <3>1, <4>1, <4>3
    <3> QED
      BY <3>2, <3>3
  <2> QED
    BY <2>1, <2>3
<1>2. ASSUME NEW w \in Posts, DeadlinePasses(w) PROVE TableInv' /\ Final
  BY <1>2 DEF DeadlinePasses, httpVars, busVars, TableInv, TableTypes, Final
<1>3. CASE EndSession /\ UNCHANGED httpVars
  <2>1. /\ bus' = <<>> /\ pending' = {} /\ due' = {} /\ reply' = reply
        /\ outcome' = [w \in Posts |-> Forget(w)]
    BY <1>3 DEF EndSession, httpVars
  <2>2. \A w \in Posts : Forget(w) = outcome[w] \/ (outcome[w] \in {"pending", "none"} /\ reply[w] # "none" /\ Forget(w) \in Settled)
    BY DEF Forget, TableInv
  <2>3. Elems(bus') = {} /\ Distinct(bus') /\ bus' \in Seq(Posts)
    BY <2>1, ElemsEmpty DEF Distinct
  <2> QED
    BY <2>1, <2>2, <2>3 DEF TableInv, TableTypes, Final
<1>4. CASE CoreDropEarly
  <2>1. bus # <<>> /\ bus' = Tail(bus) /\ outcome' = [outcome EXCEPT ![Head(bus)] = "discarded"] /\ UNCHANGED <<reply, pending, due>>
    BY <1>4 DEF CoreDropEarly, httpVars, tableVars
  <2>2. /\ Head(bus) \in Posts /\ Head(bus) \in Elems(bus) /\ Tail(bus) \in Seq(Posts)
        /\ Elems(Tail(bus)) \subseteq Elems(bus) \ {Head(bus)} /\ Distinct(Tail(bus))
    BY <2>1, BusHead
  <2>3. Elems(bus) \subseteq Posts
    BY DEF TableInv, TableTypes, Elems
  <2> QED
    BY <2>1, <2>2, <2>3 DEF TableInv, TableTypes, Final
<1>5. CASE CoreEmit
  <2>1. bus # <<>> /\ bus' = Tail(bus) /\ outcome' = [outcome EXCEPT ![Head(bus)] = "pending"] /\ UNCHANGED <<reply, due>>
        /\ pending' = pending \cup {Head(bus)}
    BY <1>5 DEF CoreEmit, httpVars
  <2>2. /\ Head(bus) \in Posts /\ Head(bus) \in Elems(bus) /\ Tail(bus) \in Seq(Posts)
        /\ Elems(Tail(bus)) \subseteq Elems(bus) \ {Head(bus)} /\ Distinct(Tail(bus))
    BY <2>1, BusHead
  <2>3. Elems(bus) \subseteq Posts
    BY DEF TableInv, TableTypes, Elems
  <2> QED
    BY <2>1, <2>2, <2>3 DEF TableInv, TableTypes, Final
<1>6. CASE CoreExpire
  <2>1. /\ pending' = pending \ due /\ due' = {} /\ UNCHANGED <<reply, bus>>
        /\ outcome' = [w \in Posts |-> IF w \in due THEN "timeout" ELSE outcome[w]]
    BY <1>6 DEF CoreExpire, httpVars, busVars
  <2>2. Elems(bus) \subseteq Posts
    BY DEF TableInv, TableTypes, Elems
  <2> QED
    BY <2>1, <2>2 DEF TableInv, TableTypes, Final
<1>7. CASE CoreReadResult
  <2>1. UNCHANGED <<reply, bus>>
    BY <1>7 DEF CoreReadResult, httpVars, busVars
  <2>2. CASE UNCHANGED <<pending, due, outcome>>
    BY <2>1, <2>2 DEF TableInv, TableTypes, Final
  <2>3. CASE ~UNCHANGED <<pending, due, outcome>>
    <3>1. PICK w \in pending, x \in {"ok", "error"} : pending' = pending \ {w} /\ due' = due \ {w} /\ outcome' = [outcome EXCEPT ![w] = x]
      BY <1>7, <2>3 DEF CoreReadResult
    <3>2. Elems(bus) \subseteq Posts
      BY DEF TableInv, TableTypes, Elems
    <3> QED
      BY <2>1, <3>1, <3>2 DEF TableInv, TableTypes, Final
  <2> QED
    BY <2>2, <2>3
<1>8. CASE UNCHANGED tableView
  BY <1>8 DEF tableView, TableInv, TableTypes, Final
<1> QED
  BY <1>1, <1>2, <1>3, <1>4, <1>5, <1>6, <1>7, <1>8, TableMoves

\* The bus and the table of pending switches agree with what has been reported.
THEOREM TableInvariant == Spec => []TableInv
<1>1. Init => TableInv
  BY ElemsEmpty DEF Init, TableInv, TableTypes, Outcomes, Distinct
<1>2. TableInv /\ [Next]_vars => TableInv'
  <2>1. TableInv /\ UNCHANGED vars => TableInv'
    BY DEF vars, httpVars, busVars, tableVars, TableInv, TableTypes
  <2> QED
    BY <2>1, TableStep
<1> QED
  BY <1>1, <1>2, PTL DEF Spec

\* A reported outcome is final, however late a result comes, whatever is read again
\* after a reconnect and whenever the session ends.
THEOREM OutcomesAreFinal == Spec => OutcomeFinal
<1>1. TableInv /\ [Next]_vars => [Final]_vars
  BY TableStep
<1>2. Spec => [][Final]_vars
  BY <1>1, TableInvariant, PTL DEF Spec
<1> QED
  BY <1>2 DEF OutcomeFinal, Final

-----------------------------------------------------------------------------
\* Results on their way back.

Truths == {r \in Result : r.ok => r.id \in Elems(applied)}
TrueFrames == {f \in Frame : f.type = "result" /\ f.ok => f.id \in Elems(applied)}

\* Wherever a result waits or travels, also re-queued or across sessions, an "ok"
\* is about a switch that OBS has made.
TruthInv ==
  /\ applied \in Seq(Ids) /\ ticking \in Seq(Ids) /\ queue \in Seq(Ids) /\ evt \in Seq(Posts)
  /\ results \in Seq(Truths) /\ batch \in Seq(Truths) /\ cmd \in Seq(TrueFrames)
  /\ OkMeansSwitched

LEMMA SeqWidens ==
  ASSUME NEW S, NEW T, S \subseteq T, NEW s \in Seq(S) PROVE s \in Seq(T)
  OBVIOUS

\* What OBS has made stays made.
LEMMA TruthsStay ==
  ASSUME Elems(applied) \subseteq Elems(applied')
  PROVE Truths \subseteq Truths' /\ TrueFrames \subseteq TrueFrames'
  BY DEF Truths, TrueFrames

truthView == <<evt, cmd, results, batch, queue, ticking, applied>>

\* The steps that touch any of it.
LEMMA TruthMoves ==
  ASSUME Next
  PROVE \/ UNCHANGED truthView
        \/ CoreEmit \/ Connect \/ ClientHello \/ ClientDrain \/ ClientSendResult \/ ClientSendNotice \/ ClientReadSwitch
        \/ cmd # <<>> /\ cmd' = Tail(cmd) /\ UNCHANGED <<evt, results, batch, queue, ticking, applied>>
        \/ \E d \in DockActions : DockSwitch(d)
        \/ TickDrain \/ (\E ok \in BOOLEAN : TickSwitch(ok)) \/ Unload \/ ObsCrash
<1> USE DEF truthView, pipeVars, clientVars, obsVars
<1>1. CASE \E w \in Posts : PostSwitch(w) \/ DeadlinePasses(w)
  BY <1>1 DEF PostSwitch, DeadlinePasses
<1>2. CASE CoreStep
  <2>1. CASE CoreLagged \/ CoreDropEarly \/ CoreEmitFails \/ CoreDrainDone \/ CoreExpire \/ CorePushFails
    BY <2>1 DEF CoreLagged, CoreDropEarly, CoreEmitFails, CoreDrainDone, CoreExpire, CorePushFails
  <2>2. CASE CoreReadTimeout \/ CoreReadEof \/ CoreReadHello \/ CoreReadResult \/ CoreReadBye \/ CoreReadGarbled
    BY <2>2 DEF CoreReadTimeout, CoreReadEof, CoreReadHello, CoreReadResult, CoreReadBye, CoreReadGarbled
  <2> QED
    BY <1>2, <2>1, <2>2 DEF CoreStep
<1>3. CASE ClientStep
  BY <1>3 DEF ClientStep, ClientReadTimeout, ClientDisconnected
<1>4. CASE StopClient \/ HeartbeatTimeout \/ CoreReadCut \/ CoreCrash
  BY <1>4 DEF StopClient, HeartbeatTimeout, CoreReadCut, CoreCrash
<1> QED
  BY <1>1, <1>2, <1>3, <1>4 DEF Next

\* Only a result that is read settles a switch as made.
LEMMA OkIsRead ==
  ASSUME TableInv, Next, NEW w \in Posts, outcome'[w] = "ok"
  PROVE outcome[w] = "ok" \/ (cmd # <<>> /\ Head(cmd).type = "result" /\ Head(cmd).ok /\ Head(cmd).id = w)
<1>1. ASSUME NEW v \in Posts, PostSwitch(v) PROVE outcome[w] = "ok"
  BY <1>1 DEF PostSwitch, TableInv, TableTypes
<1>2. ASSUME NEW v \in Posts, DeadlinePasses(v) PROVE outcome[w] = "ok"
  BY <1>2 DEF DeadlinePasses
<1>3. ASSUME EndSession PROVE outcome[w] = "ok"
  BY <1>3 DEF EndSession, Forget
<1>4. ASSUME CoreDropEarly \/ CoreEmit PROVE outcome[w] = "ok"
  BY <1>4 DEF CoreDropEarly, CoreEmit, TableInv, TableTypes
<1>5. ASSUME CoreExpire PROVE outcome[w] = "ok"
  BY <1>5 DEF CoreExpire
<1>6. ASSUME CoreReadResult, outcome[w] # "ok"
      PROVE cmd # <<>> /\ Head(cmd).type = "result" /\ Head(cmd).ok /\ Head(cmd).id = w
  BY <1>6 DEF CoreReadResult, TableInv, TableTypes
<1>7. ASSUME UNCHANGED tableView PROVE outcome[w] = "ok"
  BY <1>7 DEF tableView
<1> QED
  BY <1>1, <1>2, <1>3, <1>4, <1>5, <1>6, <1>7, TableMoves

LEMMA TruthStep ==
  ASSUME TableInv, TruthInv, Next PROVE TruthInv'
<1> DEFINE QueuesTrue == /\ applied \in Seq(Ids) /\ ticking \in Seq(Ids) /\ queue \in Seq(Ids) /\ evt \in Seq(Posts)
                         /\ results \in Seq(Truths) /\ batch \in Seq(Truths) /\ cmd \in Seq(TrueFrames)
<1>0. QueuesTrue /\ Posts \subseteq Ids /\ DockActions \subseteq Ids
  BY DEF TruthInv, Ids
<1>1. ASSUME QueuesTrue', Elems(applied) \subseteq Elems(applied') PROVE TruthInv'
  <2>1. ASSUME NEW w \in Posts, outcome'[w] = "ok" PROVE w \in Elems(applied')
    <3>1. CASE outcome[w] = "ok"
      BY <1>1, <3>1 DEF TruthInv, OkMeansSwitched
    <3>2. CASE cmd # <<>> /\ Head(cmd).type = "result" /\ Head(cmd).ok /\ Head(cmd).id = w
      <4>1. Head(cmd) \in TrueFrames
        BY <3>2, <1>0, ElemsTail
      <4> QED
        BY <1>1, <3>2, <4>1 DEF TrueFrames
    <3> QED
      BY <2>1, <3>1, <3>2, OkIsRead
  <2> QED
    BY <1>1, <2>1 DEF TruthInv, OkMeansSwitched
<1>2. ASSUME UNCHANGED applied PROVE Truths' = Truths /\ TrueFrames' = TrueFrames /\ Elems(applied) \subseteq Elems(applied')
  BY <1>2 DEF Truths, TrueFrames
<1>3. CASE UNCHANGED truthView
  BY <1>0, <1>1, <1>2, <1>3 DEF truthView
<1>4. CASE CoreEmit
  <2>1. evt' = Append(evt, Head(bus)) /\ bus # <<>> /\ UNCHANGED <<cmd, results, batch, queue, ticking, applied>>
    BY <1>4 DEF CoreEmit, clientVars, obsVars
  <2>2. Head(bus) \in Posts
    BY <2>1, BusHead
  <2> QED
    BY <1>0, <1>1, <1>2, <2>1, <2>2, ElemsAppend
<1>5. CASE Connect
  <2>1. evt' = <<>> /\ cmd' = <<>> /\ UNCHANGED <<results, batch, queue, ticking, applied>>
    BY <1>5 DEF Connect, obsVars
  <2> QED
    BY <1>0, <1>1, <1>2, <2>1
<1>6. ASSUME cmd' = cmd \/ (\E f \in TrueFrames : cmd' = Append(cmd, f)) \/ (cmd # <<>> /\ cmd' = Tail(cmd)),
             results' = results \/ results' = <<>> \/ results' = batch \o results,
             batch' = batch \/ batch' = <<>> \/ batch' = results \/ (batch # <<>> /\ batch' = Tail(batch)),
             UNCHANGED <<evt, queue, ticking, applied>>
      PROVE TruthInv'
  <2>0. <<>> \in Seq(Truths) /\ results \in Seq(Truths) /\ batch \in Seq(Truths) /\ cmd \in Seq(TrueFrames)
    BY <1>0
  <2>1. cmd' \in Seq(TrueFrames)
    <3>1. /\ \A f \in TrueFrames : Append(cmd, f) \in Seq(TrueFrames)
          /\ cmd # <<>> => Tail(cmd) \in Seq(TrueFrames)
      BY <2>0
    <3> QED
      BY <1>6, <2>0, <3>1
  <2>2. results' \in Seq(Truths)
    <3>1. batch \o results \in Seq(Truths)
      BY <2>0
    <3> QED
      BY <1>6, <2>0, <3>1
  <2>3. batch' \in Seq(Truths)
    <3>1. batch # <<>> => Tail(batch) \in Seq(Truths)
      BY <2>0
    <3> QED
      BY <1>6, <2>0, <3>1
  <2> QED
    BY <1>0, <1>1, <1>2, <1>6, <2>1, <2>2, <2>3
<1>7. CASE ClientHello
  <2>1. [type |-> "hello"] \in TrueFrames
    BY DEF TrueFrames, Frame
  <2> QED
    BY <1>6, <1>7, <2>1 DEF ClientHello, Send, obsVars
<1>8. CASE ClientDrain
  BY <1>6, <1>8 DEF ClientDrain, pipeVars, obsVars
<1>9. CASE ClientSendResult
  <2>1. batch # <<>> /\ UNCHANGED <<evt, queue, ticking, applied>>
    BY <1>9 DEF ClientSendResult, obsVars
  <2>2. Head(batch) \in Truths
    BY <1>0, <2>1, ElemsTail
  <2>3. [type |-> "result", id |-> Head(batch).id, ok |-> Head(batch).ok] \in TrueFrames
    BY <2>2, Zenon DEF Truths, TrueFrames, Frame, Result
  <2> QED
    BY <1>6, <1>9, <2>1, <2>3 DEF ClientSendResult, Send
<1>10. CASE ClientSendNotice
  <2>1. [type |-> "bye"] \in TrueFrames
    BY DEF TrueFrames, Frame
  <2> QED
    BY <1>6, <1>10, <2>1 DEF ClientSendNotice, Send, obsVars
<1>11. CASE ClientReadSwitch
  <2>1. evt # <<>> /\ evt' = Tail(evt) /\ queue' = Append(queue, Head(evt)) /\ UNCHANGED <<cmd, results, batch, ticking, applied>>
    BY <1>11 DEF ClientReadSwitch
  <2>2. evt' \in Seq(Posts) /\ Head(evt) \in Ids
    BY <1>0, <2>1, ElemsTail
  <2>3. queue' \in Seq(Ids)
    BY <1>0, <2>1, <2>2, ElemsAppend
  <2> QED
    BY <1>0, <1>1, <1>2, <2>1, <2>2, <2>3
<1>12. CASE cmd # <<>> /\ cmd' = Tail(cmd) /\ UNCHANGED <<evt, results, batch, queue, ticking, applied>>
  BY <1>6, <1>12
<1>13. ASSUME NEW d \in DockActions, DockSwitch(d) PROVE TruthInv'
  <2>1. queue' = Append(queue, d) /\ UNCHANGED <<evt, cmd, results, batch, ticking, applied>>
    BY <1>13 DEF DockSwitch, pipeVars, clientVars
  <2> QED
    BY <1>0, <1>1, <1>2, <2>1, ElemsAppend
<1>14. CASE TickDrain
  BY <1>0, <1>1, <1>2, <1>14 DEF TickDrain, pipeVars, clientVars
<1>15. ASSUME NEW ok \in BOOLEAN, TickSwitch(ok) PROVE TruthInv'
  <2>1. /\ ticking # <<>> /\ ticking' = Tail(ticking) /\ applied' = IF ok THEN Append(applied, Head(ticking)) ELSE applied
        /\ results' = Append(results, [id |-> Head(ticking), ok |-> ok]) /\ UNCHANGED <<evt, cmd, batch, queue>>
    BY <1>15 DEF TickSwitch, pipeVars
  <2>2. Head(ticking) \in Ids /\ ticking' \in Seq(Ids)
    BY <1>0, <2>1, ElemsTail
  <2>3. applied' \in Seq(Ids) /\ Elems(applied) \subseteq Elems(applied') /\ (ok => Head(ticking) \in Elems(applied'))
    <3>1. CASE ok
      <4>1. applied' = Append(applied, Head(ticking))
        BY <2>1, <3>1
      <4> QED
        BY <1>0, <2>2, <4>1, ElemsAppend
    <3>2. CASE ~ok
      BY <1>0, <2>1, <3>2
    <3> QED
      BY <3>1, <3>2
  <2>4. Truths \subseteq Truths' /\ TrueFrames \subseteq TrueFrames'
    BY <2>3, TruthsStay
  <2>5. [id |-> Head(ticking), ok |-> ok] \in Truths'
    BY <1>15, <2>2, <2>3, Zenon DEF Truths, Result
  <2>6. results \in Seq(Truths') /\ batch \in Seq(Truths') /\ cmd \in Seq(TrueFrames')
    BY <1>0, <2>4, SeqWidens
  <2>7. results' \in Seq(Truths')
    BY <2>1, <2>5, <2>6, ElemsAppend
  <2> QED
    BY <1>0, <1>1, <2>1, <2>2, <2>3, <2>6, <2>7
<1>16. CASE Unload \/ ObsCrash
  <2>1. /\ UNCHANGED <<evt, cmd, applied>> /\ results' \in {results, <<>>} /\ batch' \in {batch, <<>>}
        /\ queue' \in {queue, <<>>} /\ ticking' \in {ticking, <<>>}
    BY <1>16 DEF Unload, ObsCrash, pipeVars
  <2>2. <<>> \in Seq(Truths) /\ <<>> \in Seq(Ids)
    OBVIOUS
  <2>3. results' \in Seq(Truths) /\ batch' \in Seq(Truths) /\ queue' \in Seq(Ids) /\ ticking' \in Seq(Ids)
    BY <1>0, <2>1, <2>2
  <2> QED
    BY <1>0, <1>1, <1>2, <2>1, <2>3
<1> QED
  BY <1>3, <1>4, <1>5, <1>7, <1>8, <1>9, <1>10, <1>11, <1>12, <1>13, <1>14, <1>15, <1>16, TruthMoves

\* Results on their way back are true of OBS.
THEOREM TruthInvariant == Spec => []TruthInv
<1>1. Init => TruthInv
  BY DEF Init, TruthInv, OkMeansSwitched
<1>2. TableInv /\ TruthInv /\ [Next]_vars => TruthInv'
  <2>1. TruthInv /\ UNCHANGED vars => TruthInv'
    BY DEF vars, pipeVars, clientVars, obsVars, TruthInv, OkMeansSwitched, Truths, TrueFrames
  <2> QED
    BY <2>1, TruthStep
<1> QED
  BY <1>1, <1>2, TableInvariant, PTL DEF Spec

\* "ok" is reported of no switch that OBS has not made.
THEOREM OkIsTrue == Spec => []OkMeansSwitched
<1>1. TruthInv => OkMeansSwitched
  BY DEF TruthInv
<1> QED
  BY <1>1, TruthInvariant, PTL

-----------------------------------------------------------------------------
\* The way to OBS.

\* In p, the posts accepted so far, x comes before y.
Before(p, x, y) == \E a, b \in DOMAIN p : a < b /\ p[a] = x /\ p[b] = y
Lined(p, s) == \A i, j \in DOMAIN s : i < j /\ s[i] \in Posts /\ s[j] \in Posts => Before(p, s[i], s[j])
Ahead(p, s, t) == \A x \in Elems(s) \cap Posts : \A y \in Elems(t) \cap Posts : Before(p, x, y)
Known(p, s) == Elems(s) \cap Posts \subseteq Elems(p)

\* The switches made, the queues and the bus, one behind the other, are in the order of p.
Line(p, a, t, q, e, b) ==
  /\ p \in Seq(Posts) /\ a \in Seq(Ids) /\ t \in Seq(Ids) /\ q \in Seq(Ids) /\ e \in Seq(Ids) /\ b \in Seq(Ids)
  /\ Lined(p, a) /\ Lined(p, t) /\ Lined(p, q) /\ Lined(p, e) /\ Lined(p, b)
  /\ Ahead(p, a, t) /\ Ahead(p, a, q) /\ Ahead(p, a, e) /\ Ahead(p, a, b)
  /\ Ahead(p, t, q) /\ Ahead(p, t, e) /\ Ahead(p, t, b)
  /\ Ahead(p, q, e) /\ Ahead(p, q, b)
  /\ Ahead(p, e, b)
  /\ Known(p, a) /\ Known(p, t) /\ Known(p, q) /\ Known(p, e) /\ Known(p, b)

RouteInv == Line(posted, applied, ticking, queue, evt, bus)

\* A sequence loses its first element, or all of them.
Shorter(s, t) == t = s \/ t = <<>> \/ (s # <<>> /\ t = Tail(s))

LEMMA ShorterLined ==
  ASSUME NEW p, NEW s \in Seq(Ids), NEW t, Lined(p, s), Shorter(s, t)
  PROVE t \in Seq(Ids) /\ Lined(p, t) /\ Elems(t) \subseteq Elems(s)
<1>1. CASE t = s
  BY <1>1
<1>2. CASE t = <<>>
  BY <1>2, ElemsEmpty DEF Lined
<1>3. CASE s # <<>> /\ t = Tail(s)
  <2>1. t \in Seq(Ids) /\ Elems(t) \subseteq Elems(s)
    BY <1>3, ElemsTail
  <2>2. DOMAIN s = 1..Len(s) /\ DOMAIN t = 1..Len(s) - 1 /\ Len(s) \in Nat \ {0} /\ \A i \in 1..Len(s) - 1 : t[i] = s[i + 1]
    BY <1>3
  <2>3. Lined(p, t)
    BY <2>2 DEF Lined
  <2> QED
    BY <2>1, <2>3
<1> QED
  BY <1>1, <1>2, <1>3 DEF Shorter

\* Losses at the front, wherever they happen, keep the order.
LEMMA LineLoses ==
  ASSUME NEW p, NEW a, NEW t, NEW q, NEW e, NEW b, NEW t2, NEW q2, NEW e2, NEW b2,
         Line(p, a, t, q, e, b), Shorter(t, t2), Shorter(q, q2), Shorter(e, e2), Shorter(b, b2)
  PROVE Line(p, a, t2, q2, e2, b2)
<1>1. /\ t2 \in Seq(Ids) /\ Lined(p, t2) /\ Elems(t2) \subseteq Elems(t)
      /\ q2 \in Seq(Ids) /\ Lined(p, q2) /\ Elems(q2) \subseteq Elems(q)
      /\ e2 \in Seq(Ids) /\ Lined(p, e2) /\ Elems(e2) \subseteq Elems(e)
      /\ b2 \in Seq(Ids) /\ Lined(p, b2) /\ Elems(b2) \subseteq Elems(b)
  BY ShorterLined DEF Line
<1>2. /\ Ahead(p, a, t2) /\ Ahead(p, a, q2) /\ Ahead(p, a, e2) /\ Ahead(p, a, b2)
      /\ Ahead(p, t2, q2) /\ Ahead(p, t2, e2) /\ Ahead(p, t2, b2) /\ Ahead(p, q2, e2) /\ Ahead(p, q2, b2) /\ Ahead(p, e2, b2)
  BY <1>1 DEF Line, Ahead
<1>3. Known(p, t2) /\ Known(p, q2) /\ Known(p, e2) /\ Known(p, b2)
  BY <1>1 DEF Line, Known
<1> QED
  BY <1>1, <1>2, <1>3 DEF Line

\* The first element of t goes to the end of s.
LEMMA Moves ==
  ASSUME NEW p, NEW s \in Seq(Ids), NEW t \in Seq(Ids), t # <<>>, Lined(p, s), Lined(p, t), Ahead(p, s, t)
  PROVE /\ Append(s, Head(t)) \in Seq(Ids) /\ Tail(t) \in Seq(Ids) /\ Head(t) \in Elems(t)
        /\ Lined(p, Append(s, Head(t))) /\ Lined(p, Tail(t)) /\ Ahead(p, Append(s, Head(t)), Tail(t))
        /\ Elems(Append(s, Head(t))) = Elems(s) \cup {Head(t)} /\ Elems(Tail(t)) \subseteq Elems(t)
<1> DEFINE u == Append(s, Head(t))
<1>1. Tail(t) \in Seq(Ids) /\ Head(t) \in Ids /\ Head(t) \in Elems(t) /\ Elems(Tail(t)) \subseteq Elems(t)
  BY ElemsTail
<1>2. u \in Seq(Ids) /\ Elems(u) = Elems(s) \cup {Head(t)}
  BY <1>1, ElemsAppend
<1>3. Lined(p, Tail(t))
  BY ShorterLined DEF Shorter
<1>4. Lined(p, u)
  <2>1. DOMAIN s = 1..Len(s) /\ Len(s) \in Nat /\ DOMAIN u = 1..Len(s) + 1 /\ u[Len(s) + 1] = Head(t)
        /\ \A i \in 1..Len(s) : u[i] = s[i]
    BY <1>1
  <2>2. \A i \in 1..Len(s) : s[i] \in Posts /\ Head(t) \in Posts => Before(p, s[i], Head(t))
    BY <1>1, <2>1 DEF Ahead, Elems
  <2> HIDE DEF u
  <2>3. ASSUME NEW i \in DOMAIN u, NEW j \in DOMAIN u, i < j, u[i] \in Posts, u[j] \in Posts PROVE Before(p, u[i], u[j])
    <3>1. i \in 1..Len(s) /\ (j \in 1..Len(s) \/ j = Len(s) + 1)
      BY <2>1, <2>3
    <3>2. CASE j \in 1..Len(s)
      BY <2>1, <2>3, <3>1, <3>2 DEF Lined
    <3>3. CASE j = Len(s) + 1
      BY <2>1, <2>2, <2>3, <3>1, <3>3
    <3> QED
      BY <3>1, <3>2, <3>3
  <2> QED
    BY <2>3 DEF Lined
<1>5. \A y \in Elems(Tail(t)) \cap Posts : Head(t) \in Posts => Before(p, Head(t), y)
  <2>1. DOMAIN t = 1..Len(t) /\ DOMAIN Tail(t) = 1..Len(t) - 1 /\ Len(t) \in Nat \ {0} /\ Head(t) = t[1]
        /\ \A i \in 1..Len(t) - 1 : Tail(t)[i] = t[i + 1]
    OBVIOUS
  <2>2. \A i \in 1..Len(t) - 1 : i + 1 \in DOMAIN t /\ 1 \in DOMAIN t /\ 1 < i + 1
    BY <2>1
  <2>3. ASSUME NEW y \in Elems(Tail(t)) \cap Posts, Head(t) \in Posts PROVE Before(p, Head(t), y)
    <3>1. PICK i \in 1..Len(t) - 1 : y = t[i + 1]
      BY <2>1, <2>3 DEF Elems
    <3> QED
      BY <2>1, <2>2, <2>3, <3>1 DEF Lined
  <2> QED
    BY <2>3
<1>6. Ahead(p, u, Tail(t))
  BY <1>1, <1>2, <1>5 DEF Ahead
<1> QED
  BY <1>1, <1>2, <1>3, <1>4, <1>6

\* A post is accepted.
LEMMA LinePosts ==
  ASSUME NEW p, NEW a, NEW t, NEW q, NEW e, NEW b, Line(p, a, t, q, e, b), NEW w \in Posts
  PROVE Line(Append(p, w), a, t, q, e, Append(b, w))
<1> DEFINE p2 == Append(p, w)
           b2 == Append(b, w)
<1>1. p \in Seq(Posts) /\ b \in Seq(Ids) /\ w \in Ids
  BY DEF Line, Ids
<1>2. p2 \in Seq(Posts) /\ Elems(p2) = Elems(p) \cup {w} /\ b2 \in Seq(Ids) /\ Elems(b2) = Elems(b) \cup {w}
  BY <1>1, ElemsAppend
<1>3. DOMAIN p = 1..Len(p) /\ Len(p) \in Nat /\ DOMAIN p2 = 1..Len(p) + 1 /\ p2[Len(p) + 1] = w
      /\ \A i \in 1..Len(p) : p2[i] = p[i]
  BY <1>1
<1>4. DOMAIN b = 1..Len(b) /\ Len(b) \in Nat /\ DOMAIN b2 = 1..Len(b) + 1 /\ b2[Len(b) + 1] = w
      /\ \A i \in 1..Len(b) : b2[i] = b[i]
  BY <1>1
<1> HIDE DEF p2, b2
<1>5. \A x, y : Before(p, x, y) => Before(p2, x, y)
  BY <1>3 DEF Before
<1>6. \A x \in Elems(p) : Before(p2, x, w)
  BY <1>3 DEF Before, Elems
<1>7. /\ Lined(p2, a) /\ Lined(p2, t) /\ Lined(p2, q) /\ Lined(p2, e)
  BY <1>5 DEF Line, Lined
<1>8. /\ Ahead(p2, a, t) /\ Ahead(p2, a, q) /\ Ahead(p2, a, e) /\ Ahead(p2, t, q) /\ Ahead(p2, t, e) /\ Ahead(p2, q, e)
  BY <1>5 DEF Line, Ahead
<1>9. Ahead(p2, a, b2) /\ Ahead(p2, t, b2) /\ Ahead(p2, q, b2) /\ Ahead(p2, e, b2)
  BY <1>2, <1>5, <1>6 DEF Line, Ahead, Known
<1>10. Lined(p2, b2)
  <2>1. ASSUME NEW i \in DOMAIN b2, NEW j \in DOMAIN b2, i < j, b2[i] \in Posts, b2[j] \in Posts PROVE Before(p2, b2[i], b2[j])
    <3>1. i \in 1..Len(b) /\ (j \in 1..Len(b) \/ j = Len(b) + 1)
      BY <1>4, <2>1
    <3>2. CASE j \in 1..Len(b)
      BY <1>4, <1>5, <2>1, <3>1, <3>2 DEF Lined, Line
    <3>3. CASE j = Len(b) + 1
      <4>1. b2[i] \in Elems(p) /\ b2[j] = w
        BY <1>4, <2>1, <3>1, <3>3 DEF Line, Known, Elems
      <4> QED
        BY <1>6, <4>1
    <3> QED
      BY <3>1, <3>2, <3>3
  <2> QED
    BY <2>1 DEF Lined
<1>11. Known(p2, a) /\ Known(p2, t) /\ Known(p2, q) /\ Known(p2, e) /\ Known(p2, b2)
  BY <1>2 DEF Line, Known
<1>12. Line(p2, a, t, q, e, b2)
  BY <1>2, <1>7, <1>8, <1>9, <1>10, <1>11 DEF Line
<1> QED
  BY <1>12 DEF p2, b2

\* The core emits the first command of the bus.
LEMMA LineEmits ==
  ASSUME NEW p, NEW a, NEW t, NEW q, NEW e, NEW b, Line(p, a, t, q, e, b), b # <<>>
  PROVE Line(p, a, t, q, Append(e, Head(b)), Tail(b))
<1>1. /\ e \in Seq(Ids) /\ b \in Seq(Ids) /\ Lined(p, e) /\ Lined(p, b) /\ Ahead(p, e, b)
  BY DEF Line
<1>2. /\ Append(e, Head(b)) \in Seq(Ids) /\ Tail(b) \in Seq(Ids) /\ Head(b) \in Elems(b)
      /\ Lined(p, Append(e, Head(b))) /\ Lined(p, Tail(b)) /\ Ahead(p, Append(e, Head(b)), Tail(b))
      /\ Elems(Append(e, Head(b))) = Elems(e) \cup {Head(b)} /\ Elems(Tail(b)) \subseteq Elems(b)
  BY <1>1, Moves
<1>3. /\ Ahead(p, a, Append(e, Head(b))) /\ Ahead(p, t, Append(e, Head(b))) /\ Ahead(p, q, Append(e, Head(b)))
      /\ Ahead(p, a, Tail(b)) /\ Ahead(p, t, Tail(b)) /\ Ahead(p, q, Tail(b))
  BY <1>2 DEF Line, Ahead
<1>4. Known(p, Append(e, Head(b))) /\ Known(p, Tail(b))
  BY <1>2 DEF Line, Known
<1> QED
  BY <1>2, <1>3, <1>4 DEF Line

\* The plugin reads the first switch of the pipe and queues it.
LEMMA LineReads ==
  ASSUME NEW p, NEW a, NEW t, NEW q, NEW e, NEW b, Line(p, a, t, q, e, b), e # <<>>
  PROVE Line(p, a, t, Append(q, Head(e)), Tail(e), b)
<1>1. /\ q \in Seq(Ids) /\ e \in Seq(Ids) /\ Lined(p, q) /\ Lined(p, e) /\ Ahead(p, q, e)
  BY DEF Line
<1>2. /\ Append(q, Head(e)) \in Seq(Ids) /\ Tail(e) \in Seq(Ids) /\ Head(e) \in Elems(e)
      /\ Lined(p, Append(q, Head(e))) /\ Lined(p, Tail(e)) /\ Ahead(p, Append(q, Head(e)), Tail(e))
      /\ Elems(Append(q, Head(e))) = Elems(q) \cup {Head(e)} /\ Elems(Tail(e)) \subseteq Elems(e)
  BY <1>1, Moves
<1>3. /\ Ahead(p, a, Append(q, Head(e))) /\ Ahead(p, t, Append(q, Head(e))) /\ Ahead(p, Append(q, Head(e)), b)
      /\ Ahead(p, a, Tail(e)) /\ Ahead(p, t, Tail(e)) /\ Ahead(p, Tail(e), b)
  BY <1>2 DEF Line, Ahead
<1>4. Known(p, Append(q, Head(e))) /\ Known(p, Tail(e))
  BY <1>2 DEF Line, Known
<1> QED
  BY <1>2, <1>3, <1>4 DEF Line

\* OBS makes the first switch of the drained part.
LEMMA LineSwitches ==
  ASSUME NEW p, NEW a, NEW t, NEW q, NEW e, NEW b, Line(p, a, t, q, e, b), t # <<>>
  PROVE Line(p, Append(a, Head(t)), Tail(t), q, e, b)
<1>1. /\ a \in Seq(Ids) /\ t \in Seq(Ids) /\ Lined(p, a) /\ Lined(p, t) /\ Ahead(p, a, t)
  BY DEF Line
<1>2. /\ Append(a, Head(t)) \in Seq(Ids) /\ Tail(t) \in Seq(Ids) /\ Head(t) \in Elems(t)
      /\ Lined(p, Append(a, Head(t))) /\ Lined(p, Tail(t)) /\ Ahead(p, Append(a, Head(t)), Tail(t))
      /\ Elems(Append(a, Head(t))) = Elems(a) \cup {Head(t)} /\ Elems(Tail(t)) \subseteq Elems(t)
  BY <1>1, Moves
<1>3. /\ Ahead(p, Append(a, Head(t)), q) /\ Ahead(p, Append(a, Head(t)), e) /\ Ahead(p, Append(a, Head(t)), b)
      /\ Ahead(p, Tail(t), q) /\ Ahead(p, Tail(t), e) /\ Ahead(p, Tail(t), b)
  BY <1>2 DEF Line, Ahead
<1>4. Known(p, Append(a, Head(t))) /\ Known(p, Tail(t))
  BY <1>2 DEF Line, Known
<1> QED
  BY <1>2, <1>3, <1>4 DEF Line

\* A switch of the dock joins the queue: it has no place among the posts.
LEMMA LineDocks ==
  ASSUME NEW p, NEW a, NEW t, NEW q, NEW e, NEW b, Line(p, a, t, q, e, b), NEW d \in DockActions
  PROVE Line(p, a, t, Append(q, d), e, b)
<1>1. q \in Seq(Ids) /\ d \in Ids /\ d \notin Posts
  BY NamesAssumption DEF Line, Ids
<1>2. Append(q, d) \in Seq(Ids) /\ Elems(Append(q, d)) \cap Posts = Elems(q) \cap Posts
  BY <1>1, ElemsAppend
<1>3. DOMAIN q = 1..Len(q) /\ Len(q) \in Nat /\ DOMAIN Append(q, d) = 1..Len(q) + 1 /\ Append(q, d)[Len(q) + 1] = d
      /\ \A i \in 1..Len(q) : Append(q, d)[i] = q[i]
  BY <1>1
<1>4. Lined(p, Append(q, d))
  BY <1>1, <1>3 DEF Line, Lined
<1> QED
  BY <1>2, <1>4 DEF Line, Ahead, Known

\* The tick takes the whole queue.
LEMMA LineTicks ==
  ASSUME NEW p, NEW a, NEW q, NEW e, NEW b, Line(p, a, <<>>, q, e, b)
  PROVE Line(p, a, q, <<>>, e, b)
  BY ElemsEmpty DEF Line, Ahead

LEMMA RouteStep ==
  ASSUME RouteInv, Next PROVE RouteInv'
<1>0. Line(posted, applied, ticking, queue, evt, bus)
  BY DEF RouteInv
<1>1. ASSUME UNCHANGED <<posted, applied>>, Shorter(ticking, ticking'), Shorter(queue, queue'), Shorter(evt, evt'), Shorter(bus, bus')
      PROVE RouteInv'
  <2>1. Line(posted, applied, ticking', queue', evt', bus')
    BY <1>0, <1>1, LineLoses
  <2> QED
    BY <1>1, <2>1 DEF RouteInv
<1>2. ASSUME NEW w \in Posts, PostSwitch(w) PROVE RouteInv'
  <2>0. UNCHANGED <<applied, ticking, queue, evt>>
    BY <1>2 DEF PostSwitch, pipeVars, obsVars
  <2>1. CASE posted' = Append(posted, w) /\ bus' = Append(bus, w)
    BY <1>0, <2>0, <2>1, LinePosts DEF RouteInv
  <2>2. CASE posted' = Append(posted, w) /\ bus # <<>> /\ bus' = Append(Tail(bus), w)
    <3>1. Line(posted, applied, ticking, queue, evt, Tail(bus))
      BY <1>0, <2>2, LineLoses DEF Shorter
    <3> QED
      BY <2>0, <2>2, <3>1, LinePosts DEF RouteInv
  <2>3. CASE UNCHANGED <<posted, bus>>
    BY <1>1, <2>0, <2>3 DEF Shorter
  <2>4. ~(Len(bus) < BusCap) => bus # <<>>
    BY BoundsAssumption
  <2> QED
    BY <1>2, <2>1, <2>2, <2>3, <2>4 DEF PostSwitch, busVars
<1>3. ASSUME NEW w \in Posts, DeadlinePasses(w) PROVE RouteInv'
  BY <1>1, <1>3 DEF DeadlinePasses, httpVars, busVars, pipeVars, obsVars, Shorter
<1>4. CASE CoreEmit
  <2>1. bus # <<>> /\ bus' = Tail(bus) /\ evt' = Append(evt, Head(bus)) /\ UNCHANGED <<posted, applied, ticking, queue>>
    BY <1>4 DEF CoreEmit, httpVars, obsVars
  <2> QED
    BY <1>0, <2>1, LineEmits DEF RouteInv
<1>5. CASE CoreLagged \/ CoreDropEarly \/ CoreDrainDone \/ CoreExpire \/ CoreReadTimeout \/ CoreReadResult
  BY <1>1, <1>5 DEF CoreLagged, CoreDropEarly, CoreDrainDone, CoreExpire, CoreReadTimeout, CoreReadResult,
       httpVars, busVars, pipeVars, obsVars, Shorter
<1>6. CASE CoreEmitFails \/ CorePushFails \/ CoreReadEof \/ CoreReadHello \/ CoreReadBye \/ CoreReadGarbled
  BY <1>1, <1>6 DEF CoreEmitFails, CorePushFails, CoreReadEof, CoreReadHello, CoreReadBye, CoreReadGarbled, EndSession,
       httpVars, busVars, pipeVars, obsVars, Shorter
<1>7. CASE HeartbeatTimeout \/ CoreReadCut \/ CoreCrash \/ StopClient
  BY <1>1, <1>7 DEF HeartbeatTimeout, CoreReadCut, CoreCrash, StopClient, EndSession, httpVars, busVars, pipeVars, obsVars, Shorter
<1>8. CASE Connect \/ ClientHello \/ ClientDrain \/ ClientSendResult \/ ClientSendNotice \/ ClientReadTimeout \/ ClientDisconnected
  BY <1>1, <1>8 DEF Connect, ClientHello, ClientDrain, ClientSendResult, ClientSendNotice, ClientReadTimeout, ClientDisconnected,
       httpVars, busVars, pipeVars, obsVars, Shorter
<1>9. CASE ClientReadSwitch
  <2>1. evt # <<>> /\ evt' = Tail(evt) /\ queue' = Append(queue, Head(evt)) /\ UNCHANGED <<posted, applied, ticking, bus>>
    BY <1>9 DEF ClientReadSwitch, httpVars, busVars
  <2> QED
    BY <1>0, <2>1, LineReads DEF RouteInv
<1>10. ASSUME NEW d \in DockActions, DockSwitch(d) PROVE RouteInv'
  <2>1. queue' = Append(queue, d) /\ UNCHANGED <<posted, applied, ticking, evt, bus>>
    BY <1>10 DEF DockSwitch, httpVars, busVars, pipeVars
  <2> QED
    BY <1>0, <2>1, LineDocks DEF RouteInv
<1>11. CASE TickDrain
  <2>1. ticking = <<>> /\ ticking' = queue /\ queue' = <<>> /\ UNCHANGED <<posted, applied, evt, bus>>
    BY <1>11 DEF TickDrain, httpVars, busVars, pipeVars
  <2> QED
    BY <1>0, <2>1, LineTicks DEF RouteInv
<1>12. ASSUME NEW ok \in BOOLEAN, TickSwitch(ok) PROVE RouteInv'
  <2>1. /\ ticking # <<>> /\ ticking' = Tail(ticking) /\ UNCHANGED <<posted, queue, evt, bus>>
        /\ applied' = applied \/ applied' = Append(applied, Head(ticking))
    BY <1>12 DEF TickSwitch, httpVars, busVars, pipeVars
  <2>2. CASE applied' = applied
    BY <1>1, <2>1, <2>2 DEF Shorter
  <2>3. CASE applied' = Append(applied, Head(ticking))
    BY <1>0, <2>1, <2>3, LineSwitches DEF RouteInv
  <2> QED
    BY <2>1, <2>2, <2>3
<1>13. CASE Unload \/ ObsCrash
  BY <1>1, <1>13 DEF Unload, ObsCrash, httpVars, busVars, pipeVars, Shorter
<1> QED
  BY <1>2, <1>3, <1>4, <1>5, <1>6, <1>7, <1>8, <1>9, <1>10, <1>11, <1>12, <1>13 DEF Next, CoreStep, ClientStep

\* Everything on its way to OBS is in the order in which it was accepted.
THEOREM RouteInvariant == Spec => []RouteInv
<1>1. Init => RouteInv
  BY ElemsEmpty DEF Init, RouteInv, Line, Lined, Ahead, Known
<1>2. RouteInv /\ [Next]_vars => RouteInv'
  <2>1. RouteInv /\ UNCHANGED vars => RouteInv'
    BY DEF vars, httpVars, busVars, pipeVars, obsVars, RouteInv
  <2> QED
    BY <2>1, RouteStep
<1> QED
  BY <1>1, <1>2, PTL DEF Spec

\* OBS makes the posted switches in the order in which they were accepted,
\* whatever is lost and however sessions end.
THEOREM SwitchesAreInOrder == Spec => []SwitchesInOrder
<1>1. RouteInv => SwitchesInOrder
  BY DEF RouteInv, Line, Lined, Before, SwitchesInOrder
<1> QED
  BY <1>1, RouteInvariant, PTL

\* A post is accepted once.
PostedInv ==
  /\ reply \in [Posts -> {"none", "queued", "unavailable"}]
  /\ posted \in Seq(Posts) /\ Distinct(posted)
  /\ \A w \in Elems(posted) : reply[w] # "none"

LEMMA PostedStep ==
  ASSUME PostedInv, [Next]_vars PROVE PostedInv'
<1>1. CASE UNCHANGED <<reply, posted>>
  BY <1>1 DEF PostedInv
<1>2. ASSUME NEW w \in Posts, PostSwitch(w), ~UNCHANGED <<reply, posted>> PROVE PostedInv'
  <2>0. reply[w] = "none" /\ w \notin Elems(posted) /\ Elems(posted) \subseteq Posts
    BY <1>2 DEF PostSwitch, PostedInv, Elems
  <2>1. CASE posted' = posted
    BY <1>2, <2>0, <2>1 DEF PostSwitch, PostedInv
  <2>2. CASE posted' = Append(posted, w) /\ reply' = [reply EXCEPT ![w] = "queued"]
    <3>1. posted' \in Seq(Posts) /\ Elems(posted') = Elems(posted) \cup {w}
      BY <2>2, ElemsAppend DEF PostedInv
    <3>2. DOMAIN posted = 1..Len(posted) /\ Len(posted) \in Nat /\ DOMAIN posted' = 1..Len(posted) + 1
          /\ posted'[Len(posted) + 1] = w /\ \A i \in 1..Len(posted) : posted'[i] = posted[i]
      BY <2>2 DEF PostedInv
    <3>3. Distinct(posted')
      BY <2>0, <3>2 DEF PostedInv, Distinct, Elems
    <3> QED
      BY <2>0, <2>2, <3>1, <3>3 DEF PostedInv
  <2> QED
    BY <1>2, <2>1, <2>2 DEF PostSwitch
<1>3. ASSUME Next PROVE UNCHANGED <<reply, posted>> \/ \E w \in Posts : PostSwitch(w)
  <2> USE DEF httpVars
  <2>1. CASE CoreStep
    BY <2>1 DEF CoreStep, CoreLagged, CoreDropEarly, CoreEmit, CoreEmitFails, CoreDrainDone, CoreExpire, CorePushFails,
         CoreReadTimeout, CoreReadEof, CoreReadHello, CoreReadResult, CoreReadBye, CoreReadGarbled
  <2>2. CASE ClientStep
    BY <2>2 DEF ClientStep, Connect, ClientHello, ClientDrain, ClientSendResult, ClientSendNotice, ClientReadSwitch,
         ClientReadTimeout, ClientDisconnected
  <2> QED
    BY <1>3, <2>1, <2>2 DEF Next, DeadlinePasses, DockSwitch, TickDrain, TickSwitch, Unload, StopClient, HeartbeatTimeout,
         CoreReadCut, CoreCrash, ObsCrash
<1>4. ASSUME UNCHANGED vars PROVE UNCHANGED <<reply, posted>>
  BY <1>4 DEF vars, httpVars
<1> QED
  BY <1>1, <1>2, <1>3, <1>4

\* Of the switches made, none that was posted occurs twice.
SwitchedOnce == \A i, j \in DOMAIN applied : i # j /\ applied[i] \in Posts => applied[i] # applied[j]

\* OBS makes no posted switch twice, although results that are sent again and
\* reconnects make the plugin talk about it more than once.
THEOREM PostsSwitchOnce == Spec => []SwitchedOnce
<1>1. Init => PostedInv
  BY ElemsEmpty DEF Init, PostedInv, Distinct
<1>2. RouteInv /\ PostedInv => SwitchedOnce
  <2>1. ASSUME RouteInv, PostedInv, NEW i \in DOMAIN applied, NEW j \in DOMAIN applied, i < j,
               applied[i] \in Posts, applied[j] \in Posts
        PROVE applied[i] # applied[j]
    <3>1. Before(posted, applied[i], applied[j])
      BY <2>1 DEF RouteInv, Line, Lined
    <3>2. PICK a, b \in DOMAIN posted : a < b /\ posted[a] = applied[i] /\ posted[b] = applied[j]
      BY <3>1 DEF Before
    <3>3. a # b
      BY <2>1, <3>2 DEF PostedInv
    <3> QED
      BY <2>1, <3>2, <3>3 DEF PostedInv, Distinct
  <2>2. ASSUME RouteInv PROVE DOMAIN applied \subseteq Nat
    BY <2>2 DEF RouteInv, Line
  <2> QED
    BY <2>1, <2>2 DEF SwitchedOnce
<1> QED
  BY <1>1, <1>2, PostedStep, RouteInvariant, PTL DEF Spec
=============================================================================
