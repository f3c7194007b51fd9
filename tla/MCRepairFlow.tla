---------------------------- MODULE MCRepairFlow ----------------------------
(* RepairFlow on a small instance: every attempt repairs the one incident. *)
EXTENDS RepairFlow, TLC

CONSTANTS a1, a2, i1

MCIncidentOf == [a \in Attempts |-> i1]
Symmetry == Permutations(Requests)
=============================================================================
