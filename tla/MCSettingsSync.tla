--------------------------- MODULE MCSettingsSync ---------------------------
(* Instances of SettingsSync for TLC: actions are interchangeable, and so    *)
(* are the two values, which nothing compares but for equality.              *)
EXTENDS SettingsSync, TLC

Symmetry == Permutations(Actions) \cup Permutations(Values)
=============================================================================
