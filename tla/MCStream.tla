------------------------------- MODULE MCStream -------------------------------
(* Two pages that each may lose one socket, and two broadcasts.               *)
EXTENDS Stream, TLC

CONSTANTS p1, p2, b1, b2
MCPage == {p1, p2}
MCMaxDials == (p1 :> 2) @@ (p2 :> 1)
MCCaller == {b1, b2}
=============================================================================
