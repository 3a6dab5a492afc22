------------------------------ MODULE MCShowcase ------------------------------
(* Two visitors' runs on one instance, with a list for one case.               *)
EXTENDS Showcase, TLC

CONSTANTS r1, r2

MCRun == {r1, r2}
MCSymmetry == Permutations(MCRun)
=============================================================================
