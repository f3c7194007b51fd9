--------------------------- MODULE MCKillRelease ---------------------------
(* KillRelease on a small instance: nonces are interchangeable, and so are  *)
(* the calls of the ops endpoint.                                          *)
EXTENDS KillRelease, TLC

Symmetry == Permutations(Nonces) \cup Permutations(Calls)
=============================================================================
