-------------------------- MODULE MCApprovalLadder --------------------------
(* ApprovalLadder on a small instance: the timeouts of the tiers differ.   *)
EXTENDS ApprovalLadder, TLC

MCPrimary == (2 :> 3) @@ (3 :> 2) @@ (4 :> 1)
MCSecondary == (2 :> 1) @@ (3 :> 2)
Symmetry == Permutations(Ids)
=============================================================================
