--------------------------- MODULE MCConfigStore ---------------------------
(* Instances of ConfigStore for TLC.                                       *)
EXTENDS ConfigStore, TLC

Form(port, interval, password, grafana) ==
  [kind |-> "settings", portOk |-> port, intervalOk |-> interval, password |-> password, grafana |-> grafana]

\* A good form with all secrets, one that save refuses, a name for one output,
\* and a payload that clears every name.
MCBodies ==
  {Form(TRUE, TRUE, TRUE, "all"), Form(FALSE, TRUE, TRUE, "endpoint")}
  \cup {[kind |-> "names", set |-> {o}, blank |-> {}] : o \in Outputs}
  \cup {[kind |-> "names", set |-> {}, blank |-> Outputs]}

\* Installed with a host, a name and the control plane configured.
MCFiles ==
  {[Default EXCEPT !.host = "old", !.aegis = TRUE, !.creds = TRUE, !.names = [o \in Outputs |-> "old"]]}

\* No overrides, and one that loads only as long as Grafana is off.
MCEnvs == {<<>>, [intervalOk |-> FALSE]}

MCTokens == <<"token1", "token2">>

Symmetry == Permutations(Reqs) \cup Permutations(Outputs)
===========================================================================
