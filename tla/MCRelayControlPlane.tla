------------------------ MODULE MCRelayControlPlane ------------------------
(* Instances of RelayControlPlane for TLC.  Sessions and Instances hold one *)
(* id for every start, so the id pools never run out.                       *)
EXTENDS RelayControlPlane, TLC

ASSUME PoolsSuffice ==
  /\ Cardinality(Sessions) >= Cardinality(StartReqs)
  /\ Cardinality(Instances) >= Cardinality(StartReqs)

Symmetry == Permutations(Sessions) \cup Permutations(Instances)
            \cup Permutations(StartReqs) \cup Permutations(StopReqs)
            \cup Permutations(Users)
=============================================================================
