--------------------------- MODULE MCTrustMemory ---------------------------
(* TrustMemory on a small instance.  A tick is half a day; `eu` is a tick  *)
(* ahead of UTC and `us` one behind, and they staff different halves.      *)
EXTENDS TrustMemory, TLC

MCtoL2 == [K |-> 1, theta |-> 50, dMin |-> 1]
MCtoL3 == [K |-> 2, theta |-> 60, dMin |-> 2]
MCChurn == [max |-> 2, windowH |-> 2, quietH |-> 3]
Hours(offset, days, first, last, off) ==
  [tzOffset |-> offset, holidays |-> off,
   staffed |-> {[days |-> days, startMin |-> first, endMin |-> last]}]
MCteams == ("eu" :> Hours(1, 0..6, 0, 1, {1})) @@ ("us" :> Hours(-1, {0, 5, 6}, 1, 2, {}))
MCSimilarities == -1..1
Symmetry == Permutations(Res) \cup Permutations(Incidents)
=============================================================================
