-------------------------- MODULE MCTakeoverScenario --------------------------
(* The scenario's account and a stranger who registers and logs in beside it.  *)
EXTENDS TakeoverScenario, TLC

CONSTANTS a1, a2, a3, s1, s2, e1, e2, i1, dublin, tokyo, w1, w2

MCAttempt == {a1, a2, a3}
MCSignup == {s1, s2}
MCEmail == {e1, e2}
MCIp == {i1}
MCPlace == {dublin, tokyo}
MCPassword == {w1, w2}

\* The stranger wants the same email, and fails to log in with another one: the
\* choices that bring a conflict and a warning without account.
MCChoice ==
  /\ form = (s1 :> [email |-> e1, password |-> w1] @@ s2 :> [email |-> e1, password |-> w2])
  /\ req[a1].place = dublin
  /\ req[a3] = [email |-> e2, ip |-> i1, place |-> dublin, password |-> w1]

MCInit == ScenarioInit /\ MCChoice
MCSpec == MCInit /\ [][ScenarioNext]_allVars /\ WF_allVars(Listening)
=============================================================================
