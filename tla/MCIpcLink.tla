---------------------------- MODULE MCIpcLink ----------------------------
(* Instances of IpcLink for TLC: the plugin and a client of another build. *)
EXTENDS IpcLink
==========================================================================
