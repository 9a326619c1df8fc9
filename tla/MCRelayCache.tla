--------------------------- MODULE MCRelayCache ---------------------------
(* Instances of RelayCache for TLC: its handlers beside one that rewrites  *)
(* the configuration they load.                                            *)
EXTENDS RelayCache

\* Names for all outputs.
MCBodies == {[kind |-> "names", set |-> Outputs, blank |-> {}]}

\* The control plane configured.
MCFiles == {[Default EXCEPT !.aegis = TRUE, !.creds = TRUE]}

MCEnvs == {<<>>}

MCTokens == <<"token1">>
===========================================================================
