--------------------------- MODULE MCCasePipeline ---------------------------
(* One transaction, and scores and case files on both sides of every        *)
(* threshold of the severity and of the policy.                             *)
EXTENDS CasePipeline

CONSTANTS t1, acct

MCTx == {t1}
MCAccount == {acct}
MCAccountOf == [t \in MCTx |-> acct]

\* Closed at stage 0; escalated; critical without any investigation.
MCRuleScores == {24, 25, 80}

\* A downgraded suspicion; a watchlist hit below every score threshold; a risk
\* that is high alone and critical with a security event.
MCCaseFiles == {[score |-> 39, hit |-> FALSE, recommend |-> FALSE],
                [score |-> 39, hit |-> TRUE, recommend |-> TRUE],
                [score |-> 70, hit |-> FALSE, recommend |-> TRUE]}
=============================================================================
