----------------------------- MODULE MCAuditLog -----------------------------
(* Three appends: one to be acknowledged, one to go wrong, and one to come   *)
(* after it. The requests are interchangeable.                               *)
EXTENDS AuditLog, TLC

CONSTANTS r1, r2, r3

MCRequest == {r1, r2, r3}
MCSymmetry == Permutations(MCRequest)
=============================================================================
