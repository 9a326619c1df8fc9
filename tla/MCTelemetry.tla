--------------------------- MODULE MCTelemetry ---------------------------
(* Instances of Telemetry for TLC: everything set up well, everything set  *)
(* up badly, and an OBS that the process list does not tell of.            *)
EXTENDS Telemetry

MCSetups ==
  {[password |-> TRUE, grafana |-> "good", local |-> TRUE],
   [password |-> FALSE, grafana |-> "bad", local |-> TRUE],
   [password |-> TRUE, grafana |-> "good", local |-> FALSE]}
==========================================================================
