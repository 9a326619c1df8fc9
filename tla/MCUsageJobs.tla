---------------------------- MODULE MCUsageJobs ----------------------------
(* Instances of UsageJobs for TLC. *)
EXTENDS UsageJobs, TLC

\* The clock runs from 0 to 2 and may be read one ahead: sessions start before
\* the cycle, at either end of it and after it.
MCCycle == [u \in Users |-> [from |-> 1, to |-> 2]]
=============================================================================
