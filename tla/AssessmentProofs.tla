--------------------------- MODULE AssessmentProofs ---------------------------
(***************************************************************************)
(* For every set of amounts, averages, distances and live case files: the  *)
(* variables keep their types, a replayed case rests on the answers of all *)
(* three tools, no agent releases a payment, and each scenario of the demo *)
(* ends as documented.                                                     *)
(***************************************************************************)
EXTENDS Assessment, TLAPS

Given == x.links \in 0..3 /\ x.listed \in BOOLEAN /\ live \in BOOLEAN

\* What stage 0 left to the agents, and where a case can be without having met one.
Unseen == consulted = {} /\ case = NoCase

Met ==
  /\ pc \in {"checks", "triage"} => triage = NoTriage /\ turns = 0
  /\ pc \in {"investigation", "compliance", "alert"} => triage # NoTriage
  /\ pc = "triage" \/ triage # NoTriage => ~Clear(rules, anomaly)
  /\ triage = NoTriage => Unseen /\ turns = 0
  /\ pc = "investigation" => case = NoCase /\ turns < MaxTurns

Paid == payment.action = "allow" => pc = "done" /\ Clear(rules, anomaly)

\* What a replay has consulted after so many turns.
Seen(turn) ==
  IF turn = 0 THEN {}
  ELSE IF turn = 1 THEN {"get_transaction_history"}
  ELSE IF turn = 2 THEN {"get_transaction_history", "get_entity_graph"}
  ELSE Tool

Replayed ==
  ~live =>
    /\ triage.suspicious = triage.escalate
    /\ pc = "investigation" => triage.suspicious = TRUE
    /\ consulted = Seen(turns) /\ turns \in 0..3

AssessmentInv == TypeOK /\ Given /\ Met /\ Paid /\ Replayed /\ VerdictOnEvidence

\* The points of the rules are a number of 0..100 whatever the transaction is.
LEMMA ScoreBounded == \A t : RuleScore(t) \in 0..100
BY DEF RuleScore, Cap, Points

\* Whatever a replay has seen, its case file is one, within its bounds.
Bounded == [score : 0..100, hit : BOOLEAN, linked : 0..3, comply : BOOLEAN]

LEMMA ScriptedCaseIsCase ==
  ASSUME Given, NEW seen
  PROVE  ScriptedCase(seen) \in Bounded
<1>1. Linked(seen) \in 0..3
  BY DEF Given, Linked
<1>2. Hit(seen) \in BOOLEAN
  BY DEF Hit, Given
<1>3. LocalCase(seen) \in Bounded
  <2> DEFINE base == IF rules >= 50 \/ (Mean(seen) > 0 /\ x.amount >= 3 * Mean(seen))
                     THEN 70 ELSE 40
             score == Cap((IF Hit(seen) THEN 85 ELSE base) + 3 * Linked(seen), 95)
  <2>1. base \in {40, 70}
    OBVIOUS
  <2>2. score \in 0..95
    <3> HIDE DEF base
    <3> QED  BY <1>1, <2>1 DEF Cap
  <2>3. LocalCase(seen) = [score |-> score, hit |-> Hit(seen), linked |-> Linked(seen),
                           comply |-> score >= 70 \/ Hit(seen)]
    BY DEF LocalCase
  <2> HIDE DEF score
  <2>4. (score >= 70 \/ Hit(seen)) \in BOOLEAN
    BY <1>2, <2>2
  <2> QED  BY <1>1, <1>2, <2>2, <2>3, <2>4 DEF Bounded
<1>4. ShowcaseCase(seen) \in Bounded
  BY <1>1, <1>2 DEF ShowcaseCase, Bounded, Cap, Points
<1>5. QuietCase \in Bounded
  BY DEF QuietCase, Bounded
<1> QED  BY <1>3, <1>4, <1>5 DEF ScriptedCase

\* The script asks the three tools in turn and then emits.
LEMMA ScriptInOrder ==
  ASSUME triage.suspicious = TRUE, NEW turn \in 0..3
  PROVE  /\ turn = 0 => ScriptedCall(turn) = "get_transaction_history"
         /\ turn = 1 => ScriptedCall(turn) = "get_entity_graph"
         /\ turn = 2 => ScriptedCall(turn) = "check_sanctions_list"
         /\ turn = 3 => ScriptedCall(turn) = "emit_case_file"
BY DEF ScriptedCall, Script, Cap

LEMMA InitInv == Init => AssessmentInv
<1> SUFFICES ASSUME Init PROVE AssessmentInv
  OBVIOUS
<1>1. x.links \in 0..3 /\ x.listed \in BOOLEAN
  <2>1. CASE x \in Requested
    <3>1. PICK d \in Taken \cup Familiar : x \in DemoInputs(d[1], d[2], d[3])
      BY <2>1 DEF Requested
    <3>2. PICK amount \in Amount \cup {DefaultAmount(d[1], d[3])}, links \in Links :
            x = DemoInput(d[1], amount, d[2], d[3], links)
      BY <3>1 DEF DemoInputs
    <3>3. x.links = links /\ x.listed = (d[1] = "sanctions")
      BY <3>2 DEF DemoInput
    <3> QED  BY <3>3, AssessmentAssumption
  <2>2. ASSUME NEW where, x \in Generated(where)
        PROVE  x.links \in 0..3 /\ x.listed \in BOOLEAN
    <3>1. CASE x \in RiskyInputs(where)
      <4>1. PICK factor \in Factor, speed \in Speed, typical \in Typical, links \in Links :
              x = SyntheticInput(where, TRUE, factor * typical, speed, typical, links)
        BY <3>1 DEF RiskyInputs, SyntheticInput
      <4> QED  BY <4>1, AssessmentAssumption DEF SyntheticInput
    <3>2. CASE x \in CalmInputs(where)
      <4>1. PICK links \in Links : x.links = links /\ x.listed = FALSE
        BY <3>2 DEF CalmInputs, SyntheticInput
      <4> QED  BY <4>1, AssessmentAssumption
    <3> QED  BY <2>2, <3>1, <3>2 DEF Generated
  <2> QED  BY <2>1, <2>2 DEF Init
<1>2. TypeOK
  <2>1. turns \in 0..MaxTurns /\ consulted \in SUBSET Tool /\ rules \in 0..100
    BY AssessmentAssumption DEF Init
  <2>2. payment \in [policy : {"none", "allow", "hold", "block"},
                     action : {"none", "allow", "hold", "block"}, sound : BOOLEAN]
    BY DEF Init, NoPayment
  <2>3. triage \in {NoTriage} /\ case \in {NoCase}
    BY DEF Init
  <2>4. case.score \in 0..100 /\ case.linked \in 0..3
    BY <2>3 DEF NoCase
  <2>5. pc = "checks" /\ alert = "none" /\ anomaly = FALSE /\ fused = FALSE
    BY DEF Init
  <2> QED  BY <2>1, <2>2, <2>3, <2>4, <2>5 DEF TypeOK
<1>3. Given /\ Met /\ Paid
  BY <1>1, AssessmentAssumption DEF Init, Given, Met, Unseen, Paid, NoPayment
<1>4. Replayed /\ VerdictOnEvidence
  BY DEF Init, Replayed, VerdictOnEvidence, Seen, NoTriage
<1> QED  BY <1>2, <1>3, <1>4 DEF AssessmentInv

-----------------------------------------------------------------------------
(* Steps *)

LEMMA ChecksInv == AssessmentInv /\ Checks => AssessmentInv'
<1> SUFFICES ASSUME AssessmentInv, Checks PROVE AssessmentInv'
  OBVIOUS
<1> USE DEF AssessmentInv, Checks, given
<1>1. rules' \in 0..100
  BY ScoreBounded
<1>2. anomaly' \in BOOLEAN
  BY DEF Verdicts
<1>3. TypeOK'
  BY <1>1, <1>2 DEF TypeOK
<1>4. Given' /\ Met'
  BY DEF Given, Met, Unseen
<1>5. Paid' /\ Replayed' /\ VerdictOnEvidence'
  BY DEF Paid, Replayed, VerdictOnEvidence, Met
<1> QED  BY <1>3, <1>4, <1>5

LEMMA TriageInv == AssessmentInv /\ Triage => AssessmentInv'
<1> SUFFICES ASSUME AssessmentInv, Triage PROVE AssessmentInv'
  OBVIOUS
<1> USE DEF AssessmentInv, Triage, given
<1>1. triage' \in TriageVerdict
  BY DEF Triages
<1>2. triage' # NoTriage
  <2>1. triage'.given # NoTriage.given
    BY <1>1 DEF NoTriage, TriageVerdict
  <2> QED  BY <2>1
<1>3. ~live => triage'.suspicious = triage'.escalate
  BY DEF Triages
<1>4. TypeOK'
  BY <1>1 DEF TypeOK
<1>5. Given' /\ Met'
  BY <1>2, AssessmentAssumption DEF Given, Met, Unseen
<1>6. Paid' /\ VerdictOnEvidence'
  BY DEF Paid, VerdictOnEvidence, Met, Unseen
<1>7. Replayed'
  BY <1>1, <1>3 DEF Replayed, Met, TriageVerdict
<1> QED  BY <1>4, <1>5, <1>6, <1>7

LEMMA ResearchInv == AssessmentInv /\ Research => AssessmentInv'
<1> SUFFICES ASSUME AssessmentInv, Research PROVE AssessmentInv'
  OBVIOUS
<1> USE DEF AssessmentInv, Research, given
<1>1. PICK reply \in Replies : reply \subseteq Tool /\ consulted' = consulted \cup reply
  OBVIOUS
<1>2. turns' \in 0..MaxTurns /\ (turns' # MaxTurns => turns' < MaxTurns)
  BY AssessmentAssumption DEF TypeOK, Met
<1>3. TypeOK'
  BY <1>1, <1>2 DEF TypeOK
<1>4. Given' /\ Met'
  BY <1>2 DEF Given, Met, Unseen
<1>5. Paid'
  BY DEF Paid
<1>6. Replayed'
  <2>1. CASE live
    BY <2>1 DEF Replayed
  <2>2. CASE ~live
    <3>1. reply = {ScriptedCall(turns)} /\ turns \in 0..3 /\ triage.suspicious = TRUE
      BY <1>1, <2>2 DEF Replies, Replayed
    <3>2. turns # 3
      BY <1>1, <3>1, ScriptInOrder DEF Tool
    <3>3. consulted' = Seen(turns')
      <4>1. consulted = Seen(turns)
        BY <2>2 DEF Replayed
      <4>2. CASE turns = 0
        <5>1. ScriptedCall(turns) = "get_transaction_history"
          BY <3>1, <4>2, ScriptInOrder
        <5>2. consulted' = Seen(0) \cup {"get_transaction_history"} /\ turns' = 1
          BY <1>1, <3>1, <4>1, <4>2, <5>1
        <5> QED  BY <5>2 DEF Seen
      <4>3. CASE turns = 1
        <5>1. ScriptedCall(turns) = "get_entity_graph"
          BY <3>1, <4>3, ScriptInOrder
        <5>2. consulted' = Seen(1) \cup {"get_entity_graph"} /\ turns' = 2
          BY <1>1, <3>1, <4>1, <4>3, <5>1
        <5> QED  BY <5>2 DEF Seen
      <4>4. CASE turns = 2
        <5>1. ScriptedCall(turns) = "check_sanctions_list"
          BY <3>1, <4>4, ScriptInOrder
        <5>2. consulted' = Seen(2) \cup {"check_sanctions_list"} /\ turns' = 3
          BY <1>1, <3>1, <4>1, <4>4, <5>1
        <5> QED  BY <5>2 DEF Seen, Tool
      <4> QED  BY <3>1, <3>2, <4>2, <4>3, <4>4
    <3> QED  BY <3>1, <3>2, <3>3 DEF Replayed
  <2> QED  BY <2>1, <2>2
<1>7. VerdictOnEvidence'
  BY DEF VerdictOnEvidence, Met
<1> QED  BY <1>3, <1>4, <1>5, <1>6, <1>7

LEMMA EmitInv == AssessmentInv /\ Emit => AssessmentInv'
<1> SUFFICES ASSUME AssessmentInv, Emit PROVE AssessmentInv'
  OBVIOUS
<1> USE DEF AssessmentInv, Emit, given
<1>1. /\ case' \in CaseFile
      /\ side = "local" \/ ~live => case'.score \in 0..100
      /\ ~live => case'.linked \in 0..3
  <2>1. CASE live
    <3>1. case' \in LiveCase /\ Accepted(case')
      BY <2>1
    <3> QED  BY <2>1, <3>1, AssessmentAssumption DEF Accepted
  <2>2. CASE ~live
    <3>1. case' \in Bounded
      BY <2>2, ScriptedCaseIsCase
    <3> QED  BY <2>2, <3>1 DEF Bounded, CaseFile
  <2> QED  BY <2>1, <2>2
<1>2. TypeOK'
  BY <1>1 DEF TypeOK
<1>3. Given' /\ Met' /\ Paid' /\ Replayed'
  BY DEF Given, Met, Paid, Replayed
<1>4. VerdictOnEvidence'
  <2>1. CASE ~live
    <3>1. ScriptedCall(turns) = "emit_case_file" /\ turns \in 0..3 /\ triage.suspicious = TRUE
      BY <2>1 DEF Replies, Replayed
    <3>2. turns = 3
      <4>1. turns # 0 /\ turns # 1 /\ turns # 2
        BY <3>1, ScriptInOrder
      <4> QED  BY <3>1, <4>1
    <3>3. consulted = Tool
      BY <2>1, <3>2 DEF Replayed, Seen
    <3>4. Hit(consulted) = x.listed /\ Linked(consulted) = x.links
      BY <3>3 DEF Hit, Linked, Tool, Given
    <3>5. case' = ScriptedCase(consulted)
      BY <2>1
    <3>6. case'.hit = x.listed /\ case'.linked = x.links
      BY <3>1, <3>4, <3>5 DEF ScriptedCase, LocalCase, ShowcaseCase
    <3> QED  BY <3>3, <3>6 DEF VerdictOnEvidence
  <2> QED  BY <2>1 DEF VerdictOnEvidence
<1> QED  BY <1>2, <1>3, <1>4

\* The compliance draft and the failure of an agent only move the case on.
LEMMA MoveInv == AssessmentInv /\ (Comply \/ AgentFails) => AssessmentInv'
<1> SUFFICES ASSUME AssessmentInv, Comply \/ AgentFails PROVE AssessmentInv'
  OBVIOUS
<1> USE DEF AssessmentInv, Comply, AgentFails, given
<1>1. TypeOK' /\ Given'
  BY DEF TypeOK, Given
<1>2. Met' /\ Paid'
  BY DEF Met, Unseen, Paid
<1>3. Replayed' /\ VerdictOnEvidence'
  BY DEF Replayed, VerdictOnEvidence
<1> QED  BY <1>1, <1>2, <1>3

LEMMA AlertInv == AssessmentInv /\ Alert => AssessmentInv'
<1> SUFFICES ASSUME AssessmentInv, Alert PROVE AssessmentInv'
  OBVIOUS
<1> USE DEF AssessmentInv, Alert, given
<1>1. alert' \in Severities /\ fused' \in BOOLEAN
  BY DEF SeverityFor, Severities
<1>2. TypeOK' /\ Given'
  BY <1>1 DEF TypeOK, Given
<1>3. Met' /\ Paid'
  BY DEF Met, Unseen, Paid
<1>4. Replayed' /\ VerdictOnEvidence'
  BY DEF Replayed, VerdictOnEvidence
<1> QED  BY <1>2, <1>3, <1>4

LEMMA DecideInv == AssessmentInv /\ Decide => AssessmentInv'
<1> SUFFICES ASSUME AssessmentInv, Decide PROVE AssessmentInv'
  OBVIOUS
<1> USE DEF AssessmentInv, Decide, given
<1>1. PICK verified \in BOOLEAN, recorded \in BOOLEAN :
        payment' = [policy |-> Policy(verified),
                    action |-> IF Policy(verified) = "allow" /\ ~recorded
                               THEN "hold" ELSE Policy(verified),
                    sound |-> verified /\ recorded]
  OBVIOUS
<1>2. Policy(verified) \in {"block", "hold", "allow"}
  BY DEF Policy
<1>3. TypeOK' /\ Given'
  BY <1>1, <1>2 DEF TypeOK, Given
<1>4. Met' /\ Replayed' /\ VerdictOnEvidence'
  BY DEF Met, Unseen, Replayed, VerdictOnEvidence
<1>5. Paid'
  <2>1. payment'.action = "allow" => Policy(verified) = "allow"
    BY <1>1
  <2>2. Policy(verified) = "allow" => ~SignalRemains
    BY DEF Policy
  <2>3. ~SignalRemains => Clear(rules, anomaly)
    BY DEF SignalRemains, Clear, TypeOK
  <2> QED  BY <2>1, <2>2, <2>3 DEF Paid, Clear
<1> QED  BY <1>3, <1>4, <1>5

LEMMA StepInv == AssessmentInv /\ [Next]_vars => AssessmentInv'
<1>1. AssessmentInv /\ UNCHANGED vars => AssessmentInv'
  <2> SUFFICES ASSUME AssessmentInv, UNCHANGED vars PROVE AssessmentInv'
    OBVIOUS
  <2> USE DEF AssessmentInv, vars, given
  <2>1. TypeOK' /\ Given'
    BY DEF TypeOK, Given
  <2>2. Met' /\ Paid'
    BY DEF Met, Unseen, Paid
  <2>3. Replayed' /\ VerdictOnEvidence'
    BY DEF Replayed, VerdictOnEvidence
  <2> QED  BY <2>1, <2>2, <2>3
<1> QED  BY <1>1, ChecksInv, TriageInv, ResearchInv, EmitInv, MoveInv, AlertInv, DecideInv
         DEF Next

-----------------------------------------------------------------------------
THEOREM Invariance == Spec => []AssessmentInv
BY InitInv, StepInv, PTL DEF Spec

\* Every verdict keeps its type for every transaction and every answer of a model, and
\* every score its range unless a live model gave it to the showcase, which takes what
\* it is given (models.rs:61-69, models.py:67, agents.ts:120-123).
THEOREM AssessmentTypes == Spec => []TypeOK
<1>1. AssessmentInv => TypeOK
  BY DEF AssessmentInv
<1> QED  BY <1>1, Invariance, PTL

\* A replayed case rests on the answers of all three tools
\* (provider.py:134-153, investigator_agent.py:72-103).
THEOREM EvidenceBeforeVerdict == Spec => []VerdictOnEvidence
<1>1. AssessmentInv => VerdictOnEvidence
  BY DEF AssessmentInv
<1> QED  BY <1>1, Invariance, PTL

\* No agent of either provider releases a payment (payments.py:11-35).
THEOREM AgentsOnlyWithhold == Spec => []NoAgentReleases
<1>1. AssessmentInv => NoAgentReleases
  BY DEF AssessmentInv, NoAgentReleases, Paid, Met, Unseen
<1> QED  BY <1>1, Invariance, PTL

-----------------------------------------------------------------------------
(* A replay on the local side, followed to its payment *)

\* A named scenario is a demo request, and those go to Python.
Demo == x.scenario # "none" => side = "local" /\ x \in Requested

\* What the case has come to when the policy is asked.
Concluded ==
  IF triage = NoTriage THEN Clear(rules, anomaly)
  ELSE triage.escalate <=> case # NoCase

Reached ==
  /\ pc # "checks" => rules = RuleScore(x)
  /\ triage # NoTriage => (triage.escalate <=> Looks(rules, anomaly))
  /\ case # NoCase => case = LocalCase(Tool) /\ triage.escalate
  /\ pc \in {"compliance", "alert"} => case # NoCase
  /\ fused => x.warned
  /\ alert = IF pc \in {"policy", "done"} /\ case # NoCase
             THEN SeverityFor(case.score, fused) ELSE "none"
  /\ pc \in {"policy", "done"} => Concluded
  /\ payment.sound => pc = "done" /\ payment.action = Policy(TRUE)

Settled == ~live /\ side = "local" => Reached

ScenarioInv == Demo /\ Settled

LEMMA InitSettled == Init => ScenarioInv
<1> SUFFICES ASSUME Init PROVE ScenarioInv
  OBVIOUS
<1>1. ASSUME NEW where, x \in Generated(where) PROVE x.scenario = "none"
  <2>1. CASE x \in RiskyInputs(where)
    BY <2>1 DEF RiskyInputs, SyntheticInput
  <2>2. CASE x \in CalmInputs(where)
    BY <2>2 DEF CalmInputs, SyntheticInput
  <2> QED  BY <1>1, <2>1, <2>2 DEF Generated
<1>2. Demo
  BY <1>1 DEF Init, Demo
<1>3. Settled
  BY DEF Init, Settled, Reached, NoPayment
<1> QED  BY <1>2, <1>3 DEF ScenarioInv


LEMMA ChecksSettled == AssessmentInv /\ Settled /\ Checks => Settled'
<1> SUFFICES ASSUME AssessmentInv, Settled, Checks, ~live, side = "local" PROVE Settled'
  BY DEF Checks, given, Settled
<1>1. /\ UNCHANGED <<x, live, side, triage, case, alert, fused, payment>>
      /\ rules' = RuleScore(x) /\ pc = "checks" /\ pc' \in {"triage", "policy"}
      /\ pc' = "policy" => Clear(rules', anomaly')
  BY DEF Checks, given
<1>2. triage = NoTriage /\ case = NoCase
  BY <1>1 DEF AssessmentInv, Met, Unseen
<1>3. RuleScore(x)' = RuleScore(x)
  BY <1>1 DEF RuleScore
<1>4. alert = "none" /\ (fused => x.warned) /\ ~payment.sound
  BY <1>1 DEF Settled, Reached, AssessmentInv, TypeOK
<1> QED  BY <1>1, <1>2, <1>3, <1>4 DEF Settled, Reached, Concluded

LEMMA TriageSettled == AssessmentInv /\ Settled /\ Triage => Settled'
<1> SUFFICES ASSUME AssessmentInv, Settled, Triage, ~live, side = "local" PROVE Settled'
  BY DEF Triage, given, Settled
<1>1. /\ UNCHANGED <<x, live, side, rules, anomaly, case, alert, fused, payment>>
      /\ pc = "triage"
      /\ triage' \in TriageVerdict /\ (triage'.escalate <=> Looks(rules, anomaly))
      /\ pc' = IF triage'.escalate THEN "investigation" ELSE "policy"
  BY DEF Triage, given, Triages, TriageVerdict, Looks
<1>2. triage = NoTriage /\ case = NoCase
  BY <1>1 DEF AssessmentInv, Met, Unseen
<1>3. triage' # NoTriage
  <2>1. triage'.given # NoTriage.given
    BY <1>1 DEF NoTriage, TriageVerdict
  <2> QED  BY <2>1
<1>4. RuleScore(x)' = RuleScore(x) /\ Looks(rules, anomaly)' = Looks(rules, anomaly)
  BY <1>1 DEF RuleScore, Looks
<1>5. alert = "none" /\ (fused => x.warned) /\ ~payment.sound /\ rules = RuleScore(x)
  BY <1>1 DEF Settled, Reached, AssessmentInv, TypeOK
<1> QED  BY <1>1, <1>2, <1>3, <1>4, <1>5 DEF Settled, Reached, Concluded

LEMMA EmitSettled == AssessmentInv /\ Settled /\ Emit => Settled'
<1> SUFFICES ASSUME AssessmentInv, AssessmentInv', Settled, Emit, ~live, side = "local"
             PROVE  Settled'
  BY EmitInv DEF Emit, given, Settled
<1>1. /\ UNCHANGED <<x, live, side, rules, anomaly, triage, consulted, alert, fused, payment>>
      /\ pc = "investigation" /\ pc' \in {"compliance", "alert"}
      /\ case' = ScriptedCase(consulted)
  BY DEF Emit, given
<1>2. triage # NoTriage /\ triage.suspicious = TRUE /\ triage.suspicious = triage.escalate
  BY <1>1 DEF AssessmentInv, Met, Replayed
<1>3. case' = LocalCase(consulted) /\ case' \in Bounded
  BY <1>1, <1>2, ScriptedCaseIsCase DEF ScriptedCase, AssessmentInv
<1>4. case' # NoCase
  BY <1>3 DEF Bounded, NoCase
<1>5. consulted = Tool
  BY <1>1, <1>4 DEF AssessmentInv, VerdictOnEvidence
<1>6. /\ RuleScore(x)' = RuleScore(x) /\ Looks(rules, anomaly)' = Looks(rules, anomaly)
      /\ LocalCase(Tool)' = LocalCase(Tool)
  BY <1>1 DEF RuleScore, Looks, LocalCase, Mean, Hit, Linked, Tool
<1>7. alert = "none" /\ (fused => x.warned) /\ ~payment.sound /\ rules = RuleScore(x)
      /\ (triage.escalate <=> Looks(rules, anomaly))
  BY <1>1, <1>2 DEF Settled, Reached, AssessmentInv, TypeOK
<1> QED  BY <1>1, <1>2, <1>3, <1>4, <1>5, <1>6, <1>7 DEF Settled, Reached, Concluded

\* Nothing that decides the payment changes while an agent works or fails.
LEMMA WorkSettled ==
  AssessmentInv /\ Settled /\ (Research \/ Comply \/ AgentFails \/ UNCHANGED vars) => Settled'
<1> SUFFICES ASSUME AssessmentInv, Settled, Research \/ Comply \/ AgentFails \/ UNCHANGED vars,
                    ~live, side = "local"
             PROVE  Settled'
  BY DEF Research, Comply, AgentFails, vars, given, Settled
<1>1. UNCHANGED <<x, live, side, rules, anomaly, triage, case, alert, fused, payment>>
  BY DEF Research, Comply, AgentFails, vars, given
<1>2. \/ pc' = pc
      \/ pc = "investigation" /\ pc' = "raised"
      \/ pc = "compliance" /\ pc' = "alert"
  BY DEF Research, Comply, AgentFails, vars, given
<1>3. /\ RuleScore(x)' = RuleScore(x) /\ Looks(rules, anomaly)' = Looks(rules, anomaly)
      /\ LocalCase(Tool)' = LocalCase(Tool) /\ Policy(TRUE)' = Policy(TRUE)
      /\ SeverityFor(case.score, fused)' = SeverityFor(case.score, fused)
  BY <1>1 DEF RuleScore, Looks, LocalCase, Mean, Hit, Linked, Tool, Policy, RiskBand,
              SignalRemains, SeverityFor
<1> QED  BY <1>1, <1>2, <1>3 DEF Settled, Reached, Concluded, Clear

LEMMA AlertSettled == AssessmentInv /\ Settled /\ Alert => Settled'
<1>a. Alert => UNCHANGED given
  BY DEF Alert
<1> SUFFICES ASSUME AssessmentInv, Settled, Alert, ~live, side = "local" PROVE Settled'
  BY <1>a DEF given, Settled
<1>1. /\ UNCHANGED <<x, live, side, rules, anomaly, triage, case, payment>>
      /\ pc = "alert" /\ pc' = "policy"
      /\ fused' \in (IF x.warned THEN BOOLEAN ELSE {FALSE})
      /\ alert' = SeverityFor(case.score, fused')
  BY DEF Alert, given
<1>2. /\ RuleScore(x)' = RuleScore(x) /\ Looks(rules, anomaly)' = Looks(rules, anomaly)
      /\ LocalCase(Tool)' = LocalCase(Tool)
      /\ SeverityFor(case.score, fused)' = SeverityFor(case.score, fused')
  BY <1>1 DEF RuleScore, Looks, LocalCase, Mean, Hit, Linked, Tool, SeverityFor
<1>3. /\ triage # NoTriage /\ case # NoCase /\ ~payment.sound
      /\ rules = RuleScore(x) /\ (triage.escalate <=> Looks(rules, anomaly))
      /\ case = LocalCase(Tool) /\ triage.escalate
  BY <1>1 DEF Settled, Reached, AssessmentInv, TypeOK, Met
<1>4. fused' => x.warned
  BY <1>1
<1> QED  BY <1>1, <1>2, <1>3, <1>4 DEF Settled, Reached, Concluded

LEMMA DecideSettled == AssessmentInv /\ Settled /\ Decide => Settled'
<1> SUFFICES ASSUME AssessmentInv, Settled, Decide, ~live, side = "local" PROVE Settled'
  BY DEF Decide, given, Settled
<1>1. /\ UNCHANGED <<x, live, side, rules, anomaly, triage, case, alert, fused>>
      /\ pc = "policy" /\ pc' = "done"
  BY DEF Decide, given
<1>2. /\ RuleScore(x)' = RuleScore(x) /\ Looks(rules, anomaly)' = Looks(rules, anomaly)
      /\ LocalCase(Tool)' = LocalCase(Tool) /\ Policy(TRUE)' = Policy(TRUE)
      /\ SeverityFor(case.score, fused)' = SeverityFor(case.score, fused)
  BY <1>1 DEF RuleScore, Looks, LocalCase, Mean, Hit, Linked, Tool, Policy, RiskBand,
              SignalRemains, SeverityFor
<1>3. payment'.sound => payment'.action = Policy(TRUE)
  <2>1. PICK verified \in BOOLEAN, recorded \in BOOLEAN :
          payment' = [policy |-> Policy(verified),
                      action |-> IF Policy(verified) = "allow" /\ ~recorded
                                 THEN "hold" ELSE Policy(verified),
                      sound |-> verified /\ recorded]
    BY DEF Decide
  <2>2. payment'.sound => verified = TRUE /\ recorded = TRUE
    BY <2>1
  <2> QED  BY <2>1, <2>2
<1> QED  BY <1>1, <1>2, <1>3 DEF Settled, Reached, Concluded, Clear

LEMMA StepSettled ==
  AssessmentInv /\ ScenarioInv /\ [Next]_vars => AssessmentInv' /\ ScenarioInv'
<1> SUFFICES ASSUME AssessmentInv, ScenarioInv, [Next]_vars
             PROVE  AssessmentInv' /\ ScenarioInv'
  OBVIOUS
<1>1. x' = x /\ side' = side
  BY DEF Next, Checks, Triage, Research, Emit, Comply, AgentFails, Alert, Decide, vars, given
<1>2. Demo'
  BY <1>1 DEF ScenarioInv, Demo, Requested, DemoInputs
<1>3. Settled'
  BY ChecksSettled, TriageSettled, WorkSettled, EmitSettled, AlertSettled, DecideSettled
     DEF ScenarioInv, Next
<1> QED  BY <1>2, <1>3, StepInv DEF ScenarioInv

-----------------------------------------------------------------------------
(* The scenarios of the demo, with their default amount *)

\* A payment of 4200 is an outlier of an account that pays up to 2100.
LEMMA Outlier ==
  ASSUME NEW m \in 1..2100
  PROVE  Deviations(4200, m) > 3
<1>1. (4 * (4200 - m)) \div m \in Int /\ m * ((4 * (4200 - m)) \div m) + m > 4 * (4200 - m)
  OBVIOUS
<1> QED  BY <1>1 DEF Deviations

LEMMA Average ==
  ASSUME NEW m \in Nat \ {0}
  PROVE  Deviations(m, m) = 0
<1>1. 4 * (m - m) = 0
  OBVIOUS
<1>2. 0 \div m = 0
  OBVIOUS
<1> QED  BY <1>1, <1>2 DEF Deviations

\* What the rules make of each scenario, whatever its account, its cities and its links.
LEMMA ScenarioScores ==
  ASSUME Demo, x.scenario # "none", x.amount = DefaultAmount(x.scenario, x.mean)
  PROVE  /\ x.scenario \in Scenario /\ x.links \in 0..3
         /\ x.listed <=> x.scenario = "sanctions"
         /\ x.warned <=> x.scenario = "takeover"
         /\ ~Risky(x.scenario) => x.mean \in 40..65 /\ x.amount = x.mean
         /\ x.scenario = "normal" => RuleScore(x) = 0
         /\ x.scenario = "review" => RuleScore(x) = 35
         /\ Risky(x.scenario) => RuleScore(x) >= 55
<1>1. PICK d \in Taken \cup Familiar : x \in DemoInputs(d[1], d[2], d[3])
  BY DEF Demo, Requested
<1> DEFINE scenario == d[1]
           speed == d[2]
           m == d[3]
<1>2. /\ scenario \in Scenario /\ speed \in Nat /\ m \in Nat /\ m >= 20
      /\ scenario # "takeover" => m \in 40..65
  <2>1. /\ scenario \in Scenario /\ speed \in Speed \cup {0} /\ m \in Typical
        /\ scenario # "takeover" => m \in 40..65
    <3>1. CASE d \in Taken
      <4>1. scenario = "takeover" /\ speed \in Speed /\ m \in Typical
        BY <3>1 DEF Taken
      <4> QED  BY <4>1 DEF Scenario
    <3>2. CASE d \in Familiar
      <4>1. scenario \in Scenario \ {"takeover"} /\ speed \in Speed \cup {0}
            /\ m \in Typical \cap 40..65
        BY <3>2 DEF Familiar
      <4> QED  BY <4>1
    <3> QED  BY <1>1, <3>1, <3>2
  <2> HIDE DEF scenario, speed, m
  <2>2. Typical \subseteq Nat \ 0..19 /\ Speed \subseteq Nat
    BY AssessmentAssumption
  <2> QED  BY <2>1, <2>2
<1>3. PICK amount \in Amount \cup {DefaultAmount(scenario, m)}, links \in Links :
        x = DemoInput(scenario, amount, speed, m, links)
  BY <1>1 DEF DemoInputs
<1>4. links \in 0..3
  BY AssessmentAssumption
<1> HIDE DEF scenario, speed, m
<1>5. /\ x.scenario = scenario /\ x.amount = amount /\ x.mean = m /\ x.links = links
      /\ x.z = Deviations(amount, m) /\ x.count = IF scenario = "review" THEN 5 ELSE 1
      /\ x.spent = IF scenario = "review" THEN 4 * amount ELSE m
      /\ x.speed = IF Risky(scenario) THEN speed ELSE 0
      /\ x.newPayee <=> Risky(scenario)
      /\ x.newDevice <=> scenario # "normal"
      /\ x.listed <=> scenario = "sanctions"
      /\ x.warned <=> scenario = "takeover"
  BY <1>3 DEF DemoInput
<1>6. amount = IF Risky(scenario) THEN 4200 ELSE m
  BY <1>5 DEF DefaultAmount
<1>7. CASE ~Risky(scenario)
  <2>1. m \in 40..65 /\ amount = m /\ x.z = 0 /\ scenario \in {"normal", "review"}
    BY <1>2, <1>5, <1>6, <1>7, Average DEF Risky
  <2>2. x.spent + x.amount <= 5000 /\ x.speed = 0 /\ ~x.newPayee
    BY <1>5, <1>7, <2>1
  <2>3. RuleScore(x) = Cap(Points(x.count >= 5, 25) + Points(x.newDevice, 10), 100)
    BY <1>5, <2>1, <2>2 DEF RuleScore, Points
  <2>4. ASSUME x.scenario = "normal" PROVE RuleScore(x) = 0
    <3>1. Points(x.count >= 5, 25) = 0 /\ Points(x.newDevice, 10) = 0
      BY <1>5, <2>4 DEF Points
    <3> QED  BY <2>3, <3>1 DEF Cap
  <2>5. ASSUME x.scenario = "review" PROVE RuleScore(x) = 35
    <3>1. Points(x.count >= 5, 25) = 25 /\ Points(x.newDevice, 10) = 10
      BY <1>5, <2>5 DEF Points
    <3> QED  BY <2>3, <3>1 DEF Cap
  <2> QED  BY <1>2, <1>4, <1>5, <1>7, <2>1, <2>4, <2>5
<1>8. CASE Risky(scenario)
  <2>1. amount = 4200 /\ x.newPayee /\ x.newDevice
    BY <1>5, <1>6, <1>8 DEF Risky
  <2>2. Points(x.newPayee /\ x.amount > 1000, 25) = 25 /\ Points(x.newDevice, 10) = 10
    BY <1>5, <2>1 DEF Points
  <2>3. Points(x.z > 3, 30) = 30 \/ Points(x.spent + x.amount > 5000, 20) = 20
    <3>1. CASE m <= 2100
      <4>1. x.z > 3
        BY <1>2, <1>5, <2>1, <3>1, Outlier
      <4> QED  BY <4>1 DEF Points
    <3>2. CASE m > 2100
      <4>1. x.spent = m /\ x.amount = 4200
        BY <1>5, <1>8, <2>1 DEF Risky
      <4>2. x.spent + x.amount > 5000
        BY <1>2, <3>2, <4>1
      <4> QED  BY <4>2 DEF Points
    <3> QED  BY <1>2, <3>1, <3>2
  <2>4. /\ Points(x.count >= 5, 25) \in 0..25 /\ Points(x.spent + x.amount > 5000, 20) \in 0..20
        /\ Points(x.z > 3, 30) \in 0..30 /\ Points(x.speed > 900, 40) \in 0..40
    BY DEF Points
  <2>5. RuleScore(x) >= 55
    BY <2>2, <2>3, <2>4 DEF RuleScore, Cap
  <2>6. scenario # "normal" /\ scenario # "review"
    BY <1>8 DEF Risky
  <2> QED  BY <1>2, <1>4, <1>5, <1>8, <2>5, <2>6
<1> QED  BY <1>7, <1>8

\* A case is serious when the rules were loud, and slight when they were not and the
\* amount is the usual one.
LEMMA CaseWeighs ==
  ASSUME rules \in 0..100, x.links \in 0..3
  PROVE  LET c == LocalCase(Tool) IN
         /\ c.hit <=> x.listed
         /\ rules >= 55 => c.score >= 70
         /\ ~x.listed /\ rules < 50 /\ x.mean \in 40..65 /\ x.amount = x.mean
            => c.score \in 40..49
<1> DEFINE base == IF rules >= 50 \/ (x.mean > 0 /\ x.amount >= 3 * x.mean) THEN 70 ELSE 40
           score == Cap((IF x.listed THEN 85 ELSE base) + 3 * x.links, 95)
<1>1. Hit(Tool) = ("check_sanctions_list" \in Tool /\ x.listed)
      /\ Linked(Tool) = x.links /\ Mean(Tool) = x.mean
  BY DEF Hit, Linked, Mean, Tool
<1>2. Hit(Tool) <=> x.listed
  BY <1>1 DEF Tool
<1>3. LocalCase(Tool) = [score |-> score, hit |-> Hit(Tool), linked |-> Linked(Tool),
                         comply |-> score >= 70 \/ Hit(Tool)]
  BY <1>1, <1>2 DEF LocalCase
<1>4. base \in {40, 70}
  OBVIOUS
<1>5. rules >= 55 => base = 70
  OBVIOUS
<1>6. rules < 50 /\ x.mean \in 40..65 /\ x.amount = x.mean => base = 40
  OBVIOUS
<1> HIDE DEF base
<1>7. rules >= 55 => score >= 70
  BY <1>4, <1>5 DEF Cap
<1>8. ~x.listed /\ base = 40 => score \in 40..49
  BY DEF Cap
<1> HIDE DEF score
<1>9. LocalCase(Tool).score = score /\ LocalCase(Tool).hit = Hit(Tool)
  BY <1>3
<1>10. LocalCase(Tool).hit <=> x.listed
  BY <1>2, <1>9
<1> QED  BY <1>6, <1>7, <1>8, <1>9, <1>10

\* The payment of a replayed scenario, once it is settled under a sound audit.
LEMMA OutcomeSettled == AssessmentInv /\ ScenarioInv => DocumentedOutcome
<1> SUFFICES ASSUME AssessmentInv, ScenarioInv, ~live, payment.sound, x.scenario # "none",
                    x.amount = DefaultAmount(x.scenario, x.mean)
             PROVE  payment.action =
                      IF (x.scenario = "normal" /\ anomaly)
                         \/ (x.scenario = "takeover" /\ ~fused)
                      THEN "hold" ELSE Documented[x.scenario]
  BY DEF DocumentedOutcome
<1>1. Reached
  BY DEF ScenarioInv, Demo, Settled
<1>2. /\ pc = "done" /\ payment.action = Policy(TRUE) /\ rules = RuleScore(x)
      /\ Concluded /\ (fused => x.warned)
      /\ case # NoCase => case = LocalCase(Tool)
      /\ alert = IF case # NoCase THEN SeverityFor(case.score, fused) ELSE "none"
      /\ triage # NoTriage => (triage.escalate <=> Looks(rules, anomaly))
  BY <1>1 DEF Reached
<1>3. Demo
  BY DEF ScenarioInv
<1>4. /\ rules \in 0..100 /\ anomaly \in BOOLEAN /\ fused \in BOOLEAN
      /\ triage = NoTriage => case = NoCase
  BY DEF AssessmentInv, TypeOK, Met, Unseen
<1>5. x.scenario \in Scenario /\ x.links \in 0..3
  BY <1>3, ScenarioScores
<1>6. (case # NoCase <=> ~Clear(rules, anomaly) /\ Looks(rules, anomaly))
  BY <1>2, <1>4 DEF Concluded, Clear, Looks, AssessmentInv, Met
<1>7. CASE x.scenario = "normal"
  <2>1. /\ rules = 0 /\ ~x.listed /\ ~x.warned /\ x.mean \in 40..65 /\ x.amount = x.mean
    BY <1>2, <1>3, <1>7, ScenarioScores DEF Risky
  <2>2. CASE anomaly
    <3>1. case # NoCase
      BY <1>6, <2>1, <2>2 DEF Clear, Looks
    <3>2. case.score \in 40..49 /\ ~case.hit
      BY <1>2, <1>4, <1>5, <2>1, <3>1, CaseWeighs
    <3>3. alert = "medium"
      BY <1>2, <2>1, <3>1, <3>2 DEF SeverityFor
    <3>4. Policy(TRUE) = "hold"
      BY <2>1, <3>2, <3>3 DEF Policy, RiskBand, SignalRemains
    <3> QED  BY <1>2, <1>7, <2>2, <3>4
  <2>3. CASE ~anomaly
    <3>1. case = NoCase /\ alert = "none" /\ ~triage.escalate
      BY <1>2, <1>6, <2>1, <2>3 DEF Clear, Concluded, NoTriage
    <3>2. RiskBand(rules) = "low"
      BY <2>1 DEF RiskBand
    <3>3. ~case.hit /\ ~case.comply
      BY <3>1 DEF NoCase
    <3>4. Policy(TRUE) = "allow"
      BY <2>1, <2>3, <3>1, <3>2, <3>3 DEF Policy, SignalRemains
    <3>5. Documented[x.scenario] = "allow" /\ x.scenario # "takeover"
      BY <1>7 DEF Documented
    <3> QED  BY <1>2, <2>3, <3>4, <3>5
  <2> QED  BY <2>2, <2>3
<1>8. CASE x.scenario = "review"
  <2>1. /\ rules = 35 /\ ~x.listed /\ ~x.warned /\ x.mean \in 40..65 /\ x.amount = x.mean
    BY <1>2, <1>3, <1>8, ScenarioScores DEF Risky
  <2>a. Documented[x.scenario] = "hold" /\ x.scenario # "takeover" /\ x.scenario # "normal"
    BY <1>8 DEF Documented
  <2>2. CASE case # NoCase
    <3>1. case.score \in 40..49 /\ ~case.hit
      BY <1>2, <1>4, <1>5, <2>1, <2>2, CaseWeighs
    <3>2. alert = "medium"
      BY <1>2, <2>1, <2>2, <3>1 DEF SeverityFor
    <3>3. Policy(TRUE) = "hold"
      BY <2>1, <3>1, <3>2 DEF Policy, RiskBand, SignalRemains
    <3> QED  BY <1>2, <2>a, <3>3
  <2>3. CASE case = NoCase
    <3>1. alert = "none" /\ ~case.hit
      BY <1>2, <2>3 DEF NoCase
    <3>2. RiskBand(rules) = "medium"
      BY <2>1 DEF RiskBand
    <3>3. Policy(TRUE) = "hold"
      BY <2>1, <3>1, <3>2 DEF Policy, SignalRemains
    <3> QED  BY <1>2, <2>a, <3>3
  <2> QED  BY <2>2, <2>3
<1>9. CASE Risky(x.scenario)
  <2>1. /\ rules >= 55 /\ (x.listed <=> x.scenario = "sanctions")
        /\ (x.warned <=> x.scenario = "takeover")
        /\ x.scenario \in {"unusual", "sanctions", "takeover"}
    BY <1>2, <1>3, <1>5, <1>9, ScenarioScores DEF Risky, Scenario
  <2>2. case # NoCase
    BY <1>4, <1>6, <2>1 DEF Clear, Looks
  <2>3. case.score >= 70 /\ (case.hit <=> x.listed)
    BY <1>2, <1>4, <1>5, <2>1, <2>2, CaseWeighs
  <2>4. case.score \in Int
    BY <2>2 DEF AssessmentInv, TypeOK, CaseFile
  <2>5. alert = IF fused THEN "critical" ELSE "high"
    BY <1>2, <2>2, <2>3, <2>4 DEF SeverityFor
  <2>6. Policy(TRUE) = IF x.listed \/ fused THEN "block" ELSE "hold"
    BY <2>3, <2>5 DEF Policy
  <2>7. /\ x.scenario = "unusual" => ~x.listed /\ ~fused /\ Documented[x.scenario] = "hold"
        /\ x.scenario = "sanctions" => x.listed /\ Documented[x.scenario] = "block"
        /\ x.scenario = "takeover" => ~x.listed /\ Documented[x.scenario] = "block"
    BY <1>2, <2>1 DEF Documented
  <2> QED  BY <1>2, <2>1, <2>6, <2>7
<1> QED  BY <1>5, <1>7, <1>8, <1>9 DEF Scenario, Risky

\* With its default amount, under replay and a sound audit, each scenario of the demo
\* ends as the README lists it, for every account, distance and verdict of the forest
\* (README.md:41-47, demo.py:67-174, payments.py:11-35).
THEOREM ScenariosAsDocumented == Spec => []DocumentedOutcome
<1>1. Init => AssessmentInv /\ ScenarioInv
  BY InitInv, InitSettled
<1>2. (AssessmentInv /\ ScenarioInv) /\ [Next]_vars => (AssessmentInv /\ ScenarioInv)'
  BY StepSettled
<1> QED  BY <1>1, <1>2, OutcomeSettled, PTL DEF Spec

=============================================================================
