------------------------------ MODULE Assessment ------------------------------
(***************************************************************************)
(* What one transaction is worth: the points of the risk rules             *)
(* (engine-rust/src/rules.rs), the prefilter, the turns of the agents over *)
(* either model provider (agents-python/app/llm), the severity of the      *)
(* alert and the payment policy (payments.py), with numbers where          *)
(* CasePipeline has choices. The same path of the showcase, ported to      *)
(* TypeScript (dashboard-web/src/lib), is the side "showcase": it has its  *)
(* own prefilter, transcripts and context and no payment policy.           *)
(***************************************************************************)
EXTENDS Integers, Sequences

CONSTANTS
  Amount,   \* amounts a visitor may ask for in a demo request
  Typical,  \* the average payment of an account
  Factor,   \* how many times that a risky synthetic payment is
  Speed,    \* km/h between two different cities in one hour
  Links,    \* how many accounts are linked to it
  LiveCase, \* case files a live model may emit
  MaxTurns  \* of the investigator: MAX_TURNS

Scenario == {"normal", "review", "unusual", "sanctions", "takeover"}
Tool == {"get_transaction_history", "get_entity_graph", "check_sanctions_list"}
Severities == {"low", "medium", "high", "critical"}

\* A model may put any number there. What is no number compares as 0 does, a verdict that
\* is missing as FALSE does.
CaseFile == [score : Int, hit : BOOLEAN, linked : Nat, comply : BOOLEAN]

ASSUME AssessmentAssumption ==
  /\ Amount \subseteq Nat \ {0} /\ Typical \subseteq Nat \ 0..19 /\ Factor \subseteq 15..40
  /\ Speed \subseteq Nat \ {0} /\ Links \subseteq 0..3
  /\ LiveCase \subseteq CaseFile /\ MaxTurns \in Nat \ {0}

VARIABLES
  x,         \* the transaction, its context, and what the tools know of both
  side,      \* "local": Python and Rust; "showcase": TypeScript
  live,      \* the agents ask a model; otherwise they replay a script
  pc,        \* the step that comes next
  rules,     \* risk_score of the rules
  anomaly,   \* is_anomaly of the prefilter
  triage, turns, consulted, case, alert, fused,
  payment    \* what the policy said, what was done, whether the audit was sound

given == <<x, side, live>>
vars == <<given, pc, rules, anomaly, triage, turns, consulted, case, alert, fused, payment>>

NoTriage == [suspicious |-> FALSE, escalate |-> FALSE, given |-> FALSE]
NoCase == [score |-> 0, hit |-> FALSE, linked |-> 0, comply |-> FALSE, none |-> TRUE]
NoPayment == [policy |-> "none", action |-> "none", sound |-> FALSE]

-----------------------------------------------------------------------------
(* Transactions. z counts standard deviations, a quarter of the average. *)

Deviations(amount, typical) == (4 * (amount - typical)) \div typical

Risky(scenario) == scenario \notin {"normal", "review"}
DefaultAmount(scenario, typical) == IF Risky(scenario) THEN 4200 ELSE typical

\* create_scenario: only a takeover has a Go account, and with it a security event.
DemoInput(scenario, amount, speed, typical, links) ==
  [scenario |-> scenario, amount |-> amount, mean |-> typical, links |-> links,
   z |-> Deviations(amount, typical),
   count |-> IF scenario = "review" THEN 5 ELSE 1,
   spent |-> IF scenario = "review" THEN 4 * amount ELSE typical,
   speed |-> IF Risky(scenario) THEN speed ELSE 0,
   newPayee |-> Risky(scenario), newDevice |-> scenario # "normal",
   listed |-> scenario = "sanctions", warned |-> scenario = "takeover"]

\* generate_demo_transaction and build_scoring_context. The showcase counts the
\* payment itself as what was spent in the last hour.
SyntheticInput(where, risky, amount, speed, typical, links) ==
  [scenario |-> "none", amount |-> amount, mean |-> typical, links |-> links,
   z |-> Deviations(amount, typical), count |-> 1,
   spent |-> IF where = "showcase" THEN amount ELSE typical,
   speed |-> IF risky THEN speed ELSE 0,
   newPayee |-> risky, newDevice |-> risky, listed |-> risky, warned |-> FALSE]

-----------------------------------------------------------------------------
(* Stage 0: rules and prefilter *)

Cap(n, most) == IF n > most THEN most ELSE n
Points(fires, weight) == IF fires THEN weight ELSE 0

RuleScore(t) ==
  Cap(  Points(t.count >= 5, 25)                 \* velocity_count
      + Points(t.spent + t.amount > 5000, 20)    \* velocity_amount
      + Points(t.z > 3, 30)                      \* amount_outlier
      + Points(t.speed > 900, 40)                \* impossible_travel
      + Points(t.newPayee /\ t.amount > 1000, 25)\* new_beneficiary_high_value
      + Points(t.newDevice, 10),                 \* new_device
      100)

RiskBand(score) ==
  CASE score \in 0..24 -> "low" [] score \in 25..54 -> "medium"
    [] score \in 55..79 -> "high" [] OTHER -> "critical"

\* The showcase's score against its threshold, both times 200.
HeuristicAnomaly(t) ==
  Cap(25 * (IF t.z < 0 THEN -t.z ELSE t.z), 100) + Points(t.newPayee, 50)
    + Points(t.newDevice, 20) + Points(t.count >= 5, 30) >= 70

\* The local prefilter is a forest of random trees, whose verdict is not predicted.
Verdicts == {b \in BOOLEAN : side = "showcase" => (b <=> HeuristicAnomaly(x))}
Clear(score, unusual) == score < 25 /\ ~unusual

\* Rules, prefilter, and the first early return, after which the policy still runs.
Checks ==
  /\ pc = "checks"
  /\ rules' = RuleScore(x)
  /\ anomaly' \in Verdicts
  /\ pc' = IF ~Clear(rules', anomaly') THEN "triage"
           ELSE IF side = "local" THEN "policy" ELSE "done"
  /\ UNCHANGED <<given, triage, turns, consulted, case, alert, fused, payment>>

-----------------------------------------------------------------------------
(* The agents. A replay walks its script by the number of assistant turns in the *)
(* conversation, and reads its evidence from the tool results found there.       *)

Looks(score, unusual) == score >= 50 \/ unusual

TriageVerdict == [suspicious : BOOLEAN, escalate : BOOLEAN, given : {TRUE}]

Triages ==
  {v \in TriageVerdict :
     ~live => /\ v.suspicious <=> Looks(rules, anomaly)
              /\ v.escalate = v.suspicious}

Triage ==
  /\ pc = "triage"
  /\ triage' \in Triages
  /\ pc' = IF triage'.escalate THEN "investigation"
           ELSE IF side = "local" THEN "policy" ELSE "done"
  /\ UNCHANGED <<given, rules, anomaly, turns, consulted, case, alert, fused, payment>>

Script ==
  IF triage.suspicious
  THEN <<"get_transaction_history", "get_entity_graph", "check_sanctions_list", "emit_case_file">>
  ELSE <<"emit_case_file">>

\* Mutant: counts every message of the conversation, the tool results among them.
ScriptedCall_AllMessages(turn) == Script[Cap(2 * turn + 1, Len(Script))]

ScriptedCall(turn) == Script[Cap(turn + 1, Len(Script))]

Hit(seen) == "check_sanctions_list" \in seen /\ x.listed
Linked(seen) == IF "get_entity_graph" \in seen THEN x.links ELSE 0
Mean(seen) == IF "get_transaction_history" \in seen THEN x.mean ELSE 0

LocalCase(seen) ==
  LET mean == Mean(seen)
      base == IF rules >= 50 \/ (mean > 0 /\ x.amount >= 3 * mean) THEN 70 ELSE 40
      score == Cap((IF Hit(seen) THEN 85 ELSE base) + 3 * Linked(seen), 95)
  IN  [score |-> score, hit |-> Hit(seen), linked |-> Linked(seen),
       comply |-> score >= 70 \/ Hit(seen)]

ShowcaseCase(seen) ==
  [score |-> Cap(70 + Points(Hit(seen), 15) + 3 * Linked(seen), 95),
   hit |-> Hit(seen), linked |-> Linked(seen), comply |-> TRUE]

QuietCase == [score |-> 12, hit |-> FALSE, linked |-> 0, comply |-> FALSE]

\* A replay never gets to its quiet script: what it escalates it suspects.
ScriptedCase(seen) ==
  IF ~triage.suspicious THEN QuietCase
  ELSE IF side = "local" THEN LocalCase(seen) ELSE ShowcaseCase(seen)

\* The calls of one response: a live model may ask for several tools at once, again
\* or for none at all before it emits its case.
Replies == IF live THEN SUBSET (Tool \cup {"emit_case_file"}) \ {{}} ELSE {{ScriptedCall(turns)}}

\* Python validates the score of a case and raises (AgentFails) when it is out of range;
\* how many linked accounts it names is not bounded. TypeScript validates nothing.
Accepted(c) == side = "local" => c.score \in 0..100

\* A case ends the loop at once, whatever else the response asks for.
Emit ==
  /\ pc = "investigation"
  /\ \E reply \in Replies : "emit_case_file" \in reply
  /\ case' \in IF live THEN {c \in LiveCase : Accepted(c)} ELSE {ScriptedCase(consulted)}
  /\ pc' = IF case'.comply THEN "compliance" ELSE "alert"
  /\ UNCHANGED <<given, rules, anomaly, triage, turns, consulted, alert, fused, payment>>

\* One turn of research; after the last one the loop raises.
Research ==
  /\ pc = "investigation"
  /\ \E reply \in Replies :
       /\ reply \subseteq Tool
       /\ consulted' = consulted \cup reply
  /\ turns' = turns + 1
  /\ pc' = IF turns' = MaxTurns THEN "raised" ELSE pc
  /\ UNCHANGED <<given, rules, anomaly, triage, case, alert, fused, payment>>

Comply ==
  /\ pc = "compliance"
  /\ pc' = "alert"
  /\ UNCHANGED <<given, rules, anomaly, triage, turns, consulted, case, alert, fused, payment>>

\* The model is not reached, answers without a call, with an unknown tool or with
\* arguments that do not fit: the agent raises, and the case is never decided.
AgentFails ==
  /\ live /\ pc \in {"triage", "investigation", "compliance"}
  /\ pc' = "raised"
  /\ UNCHANGED <<given, rules, anomaly, triage, turns, consulted, case, alert, fused, payment>>

-----------------------------------------------------------------------------
(* Alert and policy *)

SeverityFor(score, event) ==
  IF event /\ score >= 50 THEN "critical"
  ELSE IF score >= 70 THEN "high"
  ELSE IF score >= 40 THEN "medium" ELSE "low"

\* The security event of the account may have expired by now.
Alert ==
  /\ pc = "alert"
  /\ fused' \in IF x.warned THEN BOOLEAN ELSE {FALSE}
  /\ alert' = SeverityFor(case.score, fused')
  /\ pc' = IF side = "local" THEN "policy" ELSE "done"
  /\ UNCHANGED <<given, rules, anomaly, triage, turns, consulted, case, payment>>

\* Mutant: an agent that let the case go settles what the prefilter found.
SignalRemains_AgentTrusted ==
  alert # "none" \/ rules >= 25 \/ (anomaly /\ ~triage.given) \/ triage.escalate \/ case.comply

SignalRemains ==
  alert # "none" \/ rules >= 25 \/ anomaly \/ triage.escalate \/ case.comply

\* Mutant: the policy goes by the band of the rules although there is an alert.
Policy_BandFirst(verified) ==
  IF case.hit \/ RiskBand(rules) = "critical" \/ alert = "critical" THEN "block"
  ELSE IF alert = "high" \/ ~verified \/ SignalRemains THEN "hold"
  ELSE "allow"

\* The severity of the alert stands for that of the rules. Both verdicts of stage 0 are
\* there whenever the policy is asked.
Policy(verified) ==
  LET severity == IF alert # "none" THEN alert ELSE RiskBand(rules)
  IN  IF case.hit \/ severity = "critical" THEN "block"
      ELSE IF severity = "high" \/ ~verified \/ SignalRemains THEN "hold"
      ELSE "allow"

\* verified: the audit status before the policy; recorded: its receipt is on a
\* chain that verifies (CasePipeline says when).
Decide ==
  /\ pc = "policy"
  /\ \E verified, recorded \in BOOLEAN :
       payment' = [policy |-> Policy(verified),
                   action |-> IF Policy(verified) = "allow" /\ ~recorded
                              THEN "hold" ELSE Policy(verified),
                   sound |-> verified /\ recorded]
  /\ pc' = "done"
  /\ UNCHANGED <<given, rules, anomaly, triage, turns, consulted, case, alert, fused>>

-----------------------------------------------------------------------------
(* The demo account of every scenario but a takeover pays 40 to 65; a takeover has an *)
(* account of its own and two different cities.                                       *)

Taken == {"takeover"} \X Speed \X Typical
Familiar == (Scenario \ {"takeover"}) \X (Speed \cup {0}) \X (Typical \cap 40..65)

DemoInputs(scenario, speed, typical) ==
  {DemoInput(scenario, amount, speed, typical, links) :
     amount \in Amount \cup {DefaultAmount(scenario, typical)}, links \in Links}

Requested == UNION {DemoInputs(d[1], d[2], d[3]) : d \in Taken \cup Familiar}

RiskyInputs(where) ==
  {SyntheticInput(where, TRUE, factor * typical, speed, typical, links) :
     factor \in Factor, speed \in Speed, typical \in Typical, links \in Links}

\* The amount is a draw of a gaussian: the average, or seldom far above it.
CalmInputs(where) ==
  {SyntheticInput(where, FALSE, share * typical, 0, typical, links) :
     share \in {1, 2}, typical \in Typical, links \in Links}

Generated(where) == RiskyInputs(where) \cup CalmInputs(where)

Init ==
  /\ live \in BOOLEAN
  /\ \/ side = "local" /\ x \in Requested \cup Generated("local")
     \/ side = "showcase" /\ x \in Generated("showcase")
  /\ pc = "checks" /\ rules = 0 /\ anomaly = FALSE
  /\ triage = NoTriage /\ turns = 0 /\ consulted = {} /\ case = NoCase
  /\ alert = "none" /\ fused = FALSE /\ payment = NoPayment

Next == Checks \/ Triage \/ Research \/ Emit \/ Comply \/ AgentFails \/ Alert \/ Decide

Spec == Init /\ [][Next]_vars

-----------------------------------------------------------------------------
(* Properties *)

\* Every verdict has its type, and every score its range but those of a live model in the
\* showcase: the rules cap theirs, the script stays within its bounds whatever it read,
\* and Python refuses the rest (models.py:67, rules.rs:130, transcripts.py:43-64).
TypeOK ==
  /\ pc \in {"checks", "triage", "investigation", "compliance", "alert", "policy",
             "done", "raised"}
  /\ rules \in 0..100 /\ anomaly \in BOOLEAN /\ fused \in BOOLEAN
  /\ triage \in {NoTriage} \cup TriageVerdict
  /\ turns \in 0..MaxTurns /\ consulted \in SUBSET Tool
  /\ case \in {NoCase} \cup CaseFile
  /\ side = "local" \/ ~live => case.score \in 0..100
  /\ ~live => case.linked \in 0..3
  /\ alert \in Severities \cup {"none"}
  /\ payment \in [policy : {"none", "allow", "hold", "block"},
                  action : {"none", "allow", "hold", "block"}, sound : BOOLEAN]

\* A replayed case file was written after all three tools were asked and says what they
\* answered of this transaction: the script, which has no memory, does not run past
\* a tool, repeat one or emit from its defaults, on either side (provider.py:134-153,
\* investigator_agent.py:72-103, provider.ts:72-113, agents.ts:119-142).
VerdictOnEvidence ==
  ~live /\ case # NoCase =>
    consulted = Tool /\ case.hit = x.listed /\ case.linked = x.links

\* Whatever the agents of either provider say, none of them releases a payment: what
\* is executed was cleared by the rules and the prefilter and seen by no agent
\* (orchestrator.py:180-195, payments.py:11-35).
NoAgentReleases ==
  payment.action = "allow" =>
    Clear(rules, anomaly) /\ triage = NoTriage /\ consulted = {} /\ case = NoCase

Documented ==
  [normal |-> "allow", review |-> "hold", unusual |-> "hold", sanctions |-> "block",
   takeover |-> "block"]

\* With its default amount, a sound audit and replay, each scenario ends as README.md:41-47
\* lists it, whatever the account's links and average, the distance between the cities and
\* the verdict of the forest are; but a normal payment the forest finds unusual is
\* held, and so is a takeover whose warning expired (demo.py:67-174).
DocumentedOutcome ==
  ~live /\ payment.sound /\ x.scenario # "none"
    /\ x.amount = DefaultAmount(x.scenario, x.mean)
    => payment.action =
         IF (x.scenario = "normal" /\ anomaly) \/ (x.scenario = "takeover" /\ ~fused)
         THEN "hold" ELSE Documented[x.scenario]
=============================================================================
