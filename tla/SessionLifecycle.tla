-------------------------- MODULE SessionLifecycle --------------------------
(***************************************************************************)
(* What the control plane promises about relay sessions, with no request,  *)
(* transaction, provider call or failure in sight: a user opens a session, *)
(* the session is bound once to a relay instance that no other session     *)
(* has, and it closes for good.  RelayControlPlane implements it.          *)
(***************************************************************************)
CONSTANTS Users, Sessions, Instances, NoUser, NoInstance

VARIABLES
  status,   \* sessions.status, "absent" when there is no row
  owner,    \* sessions.user_id
  bound     \* the instance behind sessions.relay_instance_id

vars == <<status, owner, bound>>

LiveStatus == {"provisioning", "active", "grace"}

HasLive(u) == \E s \in Sessions : owner[s] = u /\ status[s] \in LiveStatus

Init ==
  /\ status = [s \in Sessions |-> "absent"]
  /\ owner = [s \in Sessions |-> NoUser]
  /\ bound = [s \in Sessions |-> NoInstance]

\* A user with no live session opens one under a fresh identifier.
Open(u, s) ==
  /\ status[s] = "absent"
  /\ ~HasLive(u)
  /\ status' = [status EXCEPT ![s] = "provisioning"]
  /\ owner' = [owner EXCEPT ![s] = u]
  /\ UNCHANGED bound

\* The session goes live on an instance that is bound to no session.
Activate(s, i) ==
  /\ status[s] = "provisioning"
  /\ \A t \in Sessions : bound[t] # i
  /\ status' = [status EXCEPT ![s] = "active"]
  /\ bound' = [bound EXCEPT ![s] = i]
  /\ UNCHANGED owner

\* Any live session may close; its binding is kept as history.
Close(s) ==
  /\ status[s] \in LiveStatus
  /\ status' = [status EXCEPT ![s] = "stopped"]
  /\ UNCHANGED <<owner, bound>>

Next ==
  \E s \in Sessions :
    \/ \E u \in Users : Open(u, s)
    \/ \E i \in Instances : Activate(s, i)
    \/ Close(s)

Spec == Init /\ [][Next]_vars
=============================================================================
