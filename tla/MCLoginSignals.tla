---------------------------- MODULE MCLoginSignals ----------------------------
(* One account and one address, so that every request meets every other: one   *)
(* registration, three logins, two places.                                     *)
EXTENDS LoginSignals, TLC

CONSTANTS a1, a2, a3, s1, e1, i1, dublin, tokyo, w1, w2

MCAttempt == {a1, a2, a3}
MCSignup == {s1}
MCEmail == {e1}
MCIp == {i1}
MCPlace == {dublin, tokyo}
MCPassword == {w1, w2}
MCSymmetry ==
  Permutations(MCAttempt)
    \cup Permutations(MCPlace) \cup Permutations(MCPassword)
=============================================================================
