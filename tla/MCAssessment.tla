----------------------------- MODULE MCAssessment -----------------------------
(* Amounts on both sides of every threshold, an account that pays little and one *)
(* that pays much, two cities nearby and two far apart.                          *)
EXTENDS Assessment

MCAmount == {60, 1000, 1001}
MCTypical == {50, 190}
MCFactor == {15, 40}
MCSpeed == {464, 17000}
MCLinks == {0, 1, 3}

\* A live score on each side of the alert's thresholds, and one out of range.
MCLiveCase ==
  {[score |-> s, hit |-> h, linked |-> IF s > 100 THEN 7 ELSE 0, comply |-> c] :
     s \in {12, 50, 95, 120}, h \in BOOLEAN, c \in BOOLEAN}
=============================================================================
