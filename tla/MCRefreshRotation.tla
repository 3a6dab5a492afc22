-------------------------- MODULE MCRefreshRotation --------------------------
(* Three requests: a rotation, one that races or replays it, and one after   *)
(* both; two sessions, so that one can be burned and the other not.          *)
EXTENDS RefreshRotation, TLC

CONSTANTS c1, c2, c3, f1, f2, k1, k2, k3, k4

MCCall == {c1, c2, c3}
MCFamily == {f1, f2}
MCToken == {k1, k2, k3, k4}
MCSymmetry ==
  Permutations(MCCall) \cup Permutations(MCFamily) \cup Permutations(MCToken)
=============================================================================
