--------------------------- MODULE MCSceneSwitch ---------------------------
(* Instances of SceneSwitch for TLC.  The run checks liveness, so the posts  *)
(* are not declared symmetric.                                               *)
EXTENDS SceneSwitch
=============================================================================
