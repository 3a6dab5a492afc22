---------------------------- MODULE CasePipeline ----------------------------
(***************************************************************************)
(* The Python case pipeline: Orchestrator.process_transaction, the payment *)
(* control that closes it, and the endpoint that saves the case and        *)
(* answers (agents-python/app/orchestrator.py, payments.py, main.py).      *)
(*                                                                         *)
(* asyncio runs one coroutine at a time, so what lies between two awaits   *)
(* is one action: pc[t] names the await transaction t is suspended at, and *)
(* the action taken from it does everything up to the next await.          *)
(* Transactions interleave at the awaits with each other, with security    *)
(* events, with the Rust audit service and with a crash of the process.    *)
(***************************************************************************)
EXTENDS Integers, Sequences, FiniteSets

CONSTANTS
  Tx,          \* transactions the process may be asked to run
  Account,     \* accounts
  AccountOf,   \* the account of each transaction
  RuleScores,  \* risk scores the Rust rule engine may return
  CaseFiles,   \* case files the investigator may emit
  MaxTools,    \* bound: research-tool calls of one investigation
  MaxFaults    \* bound: audit calls that do not return normally

Severity == {"low", "medium", "high", "critical"}
CaseFile == [score : 0..100, hit : BOOLEAN, recommend : BOOLEAN]

ASSUME PipelineAssumption ==
  /\ AccountOf \in [Tx -> Account]
  /\ RuleScores \subseteq 0..100
  /\ CaseFiles \subseteq CaseFile
  /\ MaxTools \in Nat
  /\ MaxFaults \in Nat

NoScore == -1
NoCase == [score |-> -1, hit |-> FALSE, recommend |-> FALSE]

Action == {"allow", "hold", "block"}

\* What a receipt, and the event it records, is about. A payment.policy receipt
\* is named by the action it carries.
Kind == {"case.opened", "rules", "prefilter", "closed", "triage", "tool",
         "investigation", "compliance", "fusion", "alert",
         "case.completed"} \cup Action

Terminal == {"replied", "failed", "lost"}
Pc == {"idle", "record", "cast", "score", "triage", "investigate", "comply",
       "verify", "policyAppend", "policyVerify", "save", "notify"} \cup Terminal

VARIABLES
  pc,          \* the await each transaction is suspended at
  kind,        \* the receipt or event being recorded, then broadcast
  tools,       \* tool events of the investigation still to be emitted
  result,      \* PipelineResult: the verdicts gathered so far
  audit,       \* PipelineResult.audit: status, receipts, errors
  payment,     \* PipelineResult.payment, with the policy's own verdict
  saved,       \* transactions whose case is in the PostgreSQL table
  recent,      \* accounts with a security event inside the ten-minute window
  chain,       \* Rust: the receipts of each transaction, in chain order
  late,        \* requests Python gave up on that Rust may still carry out
  chainValid,  \* Rust: what a verification of the whole chain answers
  sent,        \* history: the kinds of receipt each transaction asked for
  faults       \* bound on audit failures

pipelineVars == <<pc, kind, tools, result, audit, payment, saved>>
auditVars == <<chain, late, chainValid, sent, faults>>
vars == <<pipelineVars, recent, auditVars>>

-----------------------------------------------------------------------------
(* The verdicts, and the policy over them. *)

Result == [rules : RuleScores \cup {NoScore},
           prefilter : {"none", "normal", "anomaly"},
           triage : {"none", "dismiss", "escalate"},
           case : CaseFiles \cup {NoCase},
           compliance : BOOLEAN,
           fused : BOOLEAN,
           alert : Severity \cup {"none"}]

AuditStatus == {"not_configured", "verified", "failed", "unavailable"}
Audit == [status : AuditStatus,
          entries : Seq(Nat \ {0}),
          errors : Nat]

Payment == [policy : Action \cup {"none"}, action : Action \cup {"none"},
            executed : BOOLEAN]

NewResult == [rules |-> NoScore, prefilter |-> "none", triage |-> "none",
              case |-> NoCase, compliance |-> FALSE, fused |-> FALSE,
              alert |-> "none"]
NewAudit == [status |-> "not_configured", entries |-> <<>>, errors |-> 0]
NewPayment == [policy |-> "none", action |-> "none", executed |-> FALSE]

EscalationThreshold == 25

\* Stage 0 looks no further when neither check has a signal.
NothingToEscalate(r) ==
  r.rules < EscalationThreshold /\ r.prefilter # "anomaly"

\* RiskBand::from_score, as the response of the rule engine carries it.
BandOf(score) ==
  IF score <= 24 THEN "low"
  ELSE IF score <= 54 THEN "medium"
  ELSE IF score <= 79 THEN "high" ELSE "critical"

\* _severity_for: a recent security event lifts an investigated risk.
SeverityFor(score, fused) ==
  IF fused /\ score >= 50 THEN "critical"
  ELSE IF score >= 70 THEN "high"
  ELSE IF score >= 40 THEN "medium" ELSE "low"

\* The alert's severity where there is an alert, else the rule engine's band.
RiskOf(r) == IF r.alert # "none" THEN r.alert ELSE BandOf(r.rules)

\* Mutant: a triage that dismissed the anomaly clears the payment.
SignalRemains_TriageClears(r) ==
  r.alert # "none" \/ r.triage = "escalate" \/ r.case.recommend

SignalRemains(r) ==
  \/ r.alert # "none"
  \/ r.rules >= EscalationThreshold
  \/ r.prefilter = "anomaly"
  \/ r.triage = "escalate"
  \/ r.case.recommend

\* Mutant: the unverified trail is looked at before the watchlist hit.
PolicyFor_TrailFirst(r, status) ==
  IF status # "verified" THEN "hold"
  ELSE IF r.case.hit \/ RiskOf(r) = "critical" THEN "block"
  ELSE IF RiskOf(r) = "high" \/ SignalRemains(r) THEN "hold" ELSE "allow"

\* payment_policy
PolicyFor(r, status) ==
  IF r.case.hit \/ RiskOf(r) = "critical" THEN "block"
  ELSE IF \/ RiskOf(r) = "high"
          \/ status # "verified"
          \/ r.rules = NoScore \/ r.prefilter = "none"
          \/ SignalRemains(r)
       THEN "hold"
       ELSE "allow"

-----------------------------------------------------------------------------
(* Between two awaits. *)

Suspend(t, await) == pc' = [pc EXCEPT ![t] = await]

\* emit() and record() begin by awaiting the append of a receipt.
Emit(t, k) ==
  /\ kind' = [kind EXCEPT ![t] = k]
  /\ Suspend(t, "record")

\* An append that Rust persisted and whose receipt came back.
Acknowledged(t, k) ==
  LET n == Len(sent[t]) + 1 IN
  /\ sent' = [sent EXCEPT ![t] = Append(@, k)]
  /\ chain' = [chain EXCEPT ![t] = Append(@, n)]
  /\ audit' = [audit EXCEPT ![t].entries = Append(@, n)]
  /\ UNCHANGED <<late, faults>>

\* An append that raised: Rust refused it, or no answer came in time and the
\* request is still under way. `status` is what the except branch leaves.
Raised(t, k, status) ==
  /\ faults < MaxFaults
  /\ faults' = faults + 1
  /\ sent' = [sent EXCEPT ![t] = Append(@, k)]
  /\ audit' = [audit EXCEPT ![t].errors = @ + 1, ![t].status = status]
  /\ late' \in {late, late \cup {<<t, Len(sent[t]) + 1>>}}
  /\ UNCHANGED chain

-----------------------------------------------------------------------------
(* process_transaction *)

Start(t) ==
  /\ pc[t] = "idle"
  /\ Emit(t, "case.opened")
  /\ UNCHANGED <<tools, result, audit, payment, saved, recent, auditVars>>

\* Where record() returns to: the opening receipt is followed by the rule
\* engine, the completing one by verification, any other by the broadcast.
AfterReceipt(k) ==
  CASE k = "case.opened" -> "score"
    [] k = "case.completed" -> "verify"
    [] OTHER -> "cast"

Record(t) ==
  /\ pc[t] = "record"
  /\ \/ Acknowledged(t, kind[t])
     \/ Raised(t, kind[t], audit[t].status)
  /\ Suspend(t, AfterReceipt(kind[t]))
  /\ UNCHANGED <<kind, tools, result, payment, saved, recent, chainValid>>

Score(t) ==
  /\ pc[t] = "score"
  /\ \E s \in RuleScores : result' = [result EXCEPT ![t].rules = s]
  /\ Emit(t, "rules")
  /\ UNCHANGED <<tools, audit, payment, saved, recent, auditVars>>

\* The broadcast of the event just recorded is over.
Cast(t, k) == pc[t] = "cast" /\ kind[t] = k

AfterRules(t) ==
  /\ Cast(t, "rules")
  /\ \E v \in {"normal", "anomaly"} :
       result' = [result EXCEPT ![t].prefilter = v]
  /\ Emit(t, "prefilter")
  /\ UNCHANGED <<tools, audit, payment, saved, recent, auditVars>>

AfterPrefilter(t) ==
  /\ Cast(t, "prefilter")
  /\ IF NothingToEscalate(result[t])
     THEN Emit(t, "closed")
     ELSE Suspend(t, "triage") /\ UNCHANGED kind
  /\ UNCHANGED <<tools, result, audit, payment, saved, recent, auditVars>>

Triage(t) ==
  /\ pc[t] = "triage"
  /\ \E v \in {"dismiss", "escalate"} :
       result' = [result EXCEPT ![t].triage = v]
  /\ Emit(t, "triage")
  /\ UNCHANGED <<tools, audit, payment, saved, recent, auditVars>>

AfterTriage(t) ==
  /\ Cast(t, "triage")
  /\ IF result[t].triage = "escalate"
     THEN Suspend(t, "investigate") /\ UNCHANGED kind
     ELSE Emit(t, "closed")
  /\ UNCHANGED <<tools, result, audit, payment, saved, recent, auditVars>>

\* The investigator ends with a case file; the tool calls it made on the way
\* are emitted one by one, then the case file.
NextFinding(left) == IF left > 0 THEN "tool" ELSE "investigation"

Investigate(t) ==
  /\ pc[t] = "investigate"
  /\ \E c \in CaseFiles, n \in 0..MaxTools :
       /\ result' = [result EXCEPT ![t].case = c]
       /\ tools' = [tools EXCEPT ![t] = n]
       /\ Emit(t, NextFinding(n))
  /\ UNCHANGED <<audit, payment, saved, recent, auditVars>>

AfterTool(t) ==
  /\ Cast(t, "tool")
  /\ tools' = [tools EXCEPT ![t] = @ - 1]
  /\ Emit(t, NextFinding(tools[t] - 1))
  /\ UNCHANGED <<result, audit, payment, saved, recent, auditVars>>

WithAlert(r) == [r EXCEPT !.alert = SeverityFor(r.case.score, r.fused)]

\* One read of the recent security events decides both the fusion event and,
\* an append and a broadcast later, the severity of the alert.
Fuse(t) ==
  IF AccountOf[t] \in recent
  THEN /\ result' = [result EXCEPT ![t].fused = TRUE]
       /\ Emit(t, "fusion")
  ELSE /\ result' = [result EXCEPT ![t] = WithAlert(@)]
       /\ Emit(t, "alert")

AfterInvestigation(t) ==
  /\ Cast(t, "investigation")
  /\ IF result[t].case.recommend
     THEN Suspend(t, "comply") /\ UNCHANGED <<kind, result>>
     ELSE Fuse(t)
  /\ UNCHANGED <<tools, audit, payment, saved, recent, auditVars>>

Comply(t) ==
  /\ pc[t] = "comply"
  /\ result' = [result EXCEPT ![t].compliance = TRUE]
  /\ Emit(t, "compliance")
  /\ UNCHANGED <<tools, audit, payment, saved, recent, auditVars>>

AfterCompliance(t) ==
  /\ Cast(t, "compliance")
  /\ Fuse(t)
  /\ UNCHANGED <<tools, audit, payment, saved, recent, auditVars>>

\* Mutant: the security events are read a second time for the alert.
AfterFusion_ReadsAgain(t) ==
  /\ Cast(t, "fusion")
  /\ result' = [result EXCEPT ![t] =
                  WithAlert([@ EXCEPT !.fused = AccountOf[t] \in recent])]
  /\ Emit(t, "alert")
  /\ UNCHANGED <<tools, audit, payment, saved, recent, auditVars>>

AfterFusion(t) ==
  /\ Cast(t, "fusion")
  /\ result' = [result EXCEPT ![t] = WithAlert(@)]
  /\ Emit(t, "alert")
  /\ UNCHANGED <<tools, audit, payment, saved, recent, auditVars>>

\* Mutant: the path that closes a case early never finishes it.
AfterLastEvent_AlertOnly(t) ==
  /\ Cast(t, "alert")
  /\ Emit(t, "case.completed")
  /\ UNCHANGED <<tools, result, audit, payment, saved, recent, auditVars>>

AfterLastEvent(t) ==
  /\ Cast(t, "closed") \/ Cast(t, "alert")
  /\ Emit(t, "case.completed")
  /\ UNCHANGED <<tools, result, audit, payment, saved, recent, auditVars>>

-----------------------------------------------------------------------------
(* finish() and apply_payment_control *)

\* Mutant: the chain is valid, so the case is, whatever was not appended to it.
StatusOf_ValidIsEnough(valid, errors) == IF valid THEN "verified" ELSE "failed"

StatusOf(valid, errors) == IF valid /\ errors = 0 THEN "verified" ELSE "failed"

\* A verification that raised instead of answering.
VerificationRaised(t, status) ==
  /\ faults < MaxFaults
  /\ faults' = faults + 1
  /\ audit' = [audit EXCEPT ![t].errors = @ + 1, ![t].status = status]

\* Mutant: the policy event is built before the verification has answered.
AskPolicy_StaleEvent(t, status) ==
  /\ payment' = [payment EXCEPT ![t].policy = PolicyFor(result[t], status)]
  /\ kind' = [kind EXCEPT ![t] = PolicyFor(result[t], audit[t].status)]
  /\ Suspend(t, "policyAppend")

\* The policy reads the status that verification has just left.
AskPolicy(t, status) ==
  /\ payment' = [payment EXCEPT ![t].policy = PolicyFor(result[t], status)]
  /\ kind' = [kind EXCEPT ![t] = PolicyFor(result[t], status)]
  /\ Suspend(t, "policyAppend")

Verify(t) ==
  /\ pc[t] = "verify"
  /\ \/ LET status == StatusOf(chainValid, audit[t].errors) IN
        /\ audit' = [audit EXCEPT ![t].status = status]
        /\ AskPolicy(t, status)
        /\ UNCHANGED faults
     \/ /\ VerificationRaised(t, "unavailable")
        /\ AskPolicy(t, "unavailable")
  /\ UNCHANGED <<tools, result, saved, recent, chain, late, chainValid, sent>>

\* The enforcement boundary: a payment that policy allows is executed only if
\* the policy receipt was recorded and verified; otherwise it is held.
Settle(t, verified) ==
  LET policy == payment[t].policy
      action == IF policy = "allow" /\ ~verified THEN "hold" ELSE policy
  IN  /\ payment' = [payment EXCEPT ![t].action = action,
                                    ![t].executed = (action = "allow")]
      /\ Suspend(t, "save")

\* What a failed append or verification of the policy receipt leaves behind.
StatusAfterFailure(status) == IF status = "failed" THEN "failed" ELSE "unavailable"

RecordPolicy(t) ==
  /\ pc[t] = "policyAppend"
  /\ \/ /\ Acknowledged(t, kind[t])
        /\ Suspend(t, "policyVerify")
        /\ UNCHANGED payment
     \/ /\ Raised(t, kind[t], StatusAfterFailure(audit[t].status))
        /\ Settle(t, FALSE)
  /\ UNCHANGED <<kind, tools, result, saved, recent, chainValid>>

VerifyPolicy(t) ==
  /\ pc[t] = "policyVerify"
  /\ \/ /\ audit' = [audit EXCEPT ![t].status =
                                    StatusOf(chainValid, audit[t].errors)]
        /\ Settle(t, chainValid /\ audit[t].errors = 0)
        /\ UNCHANGED faults
     \/ /\ VerificationRaised(t, StatusAfterFailure(audit[t].status))
        /\ Settle(t, FALSE)
  /\ UNCHANGED <<kind, tools, result, saved, recent, chain, late, chainValid, sent>>

-----------------------------------------------------------------------------
(* The endpoint that ran the pipeline, and its surroundings. *)

Save(t) ==
  /\ pc[t] = "save"
  /\ saved' = saved \cup {t}
  /\ Suspend(t, "notify")
  /\ UNCHANGED <<kind, tools, result, audit, payment, recent, auditVars>>

Notify(t) ==
  /\ pc[t] = "notify"
  /\ Suspend(t, "replied")
  /\ UNCHANGED <<kind, tools, result, audit, payment, saved, recent, auditVars>>

\* Awaits whose exception leaves process_transaction or the endpoint: the rule
\* engine, an agent that emits no verdict, a broadcast over a set of sockets
\* that changed meanwhile, the INSERT.
CanRaise == {"score", "triage", "investigate", "comply", "cast", "save", "notify"}

\* The PipelineResult is local to the coroutine; a case in the table stays.
Unsaved(T) == {t \in T : t \notin saved}

Forget(T) ==
  /\ kind' = [t \in Tx |-> IF t \in T THEN "case.opened" ELSE kind[t]]
  /\ tools' = [t \in Tx |-> IF t \in T THEN 0 ELSE tools[t]]
  /\ result' = [t \in Tx |-> IF t \in T THEN NewResult ELSE result[t]]
  /\ audit' = [t \in Tx |-> IF t \in T THEN NewAudit ELSE audit[t]]
  /\ payment' = [t \in Tx |-> IF t \in T THEN NewPayment ELSE payment[t]]

Fail(t) ==
  /\ pc[t] \in CanRaise
  /\ Suspend(t, "failed")
  /\ Forget(Unsaved({t}))
  /\ UNCHANGED <<saved, recent, auditVars>>

Running(t) == pc[t] \notin {"idle"} \cup Terminal

\* The Python process dies and is restarted. An append it was awaiting may
\* still be carried out by Rust; the recent security events are forgotten.
Awaiting(t) == pc[t] \in {"record", "policyAppend"}

Crash ==
  /\ \E t \in Tx : Running(t)
  /\ pc' = [t \in Tx |-> IF Running(t) THEN "lost" ELSE pc[t]]
  /\ Forget(Unsaved({t \in Tx : Running(t)}))
  /\ sent' = [t \in Tx |-> IF Awaiting(t) THEN Append(sent[t], kind[t]) ELSE sent[t]]
  /\ \E T \in SUBSET {t \in Tx : Awaiting(t)} :
       late' = late \cup {<<t, Len(sent[t]) + 1>> : t \in T}
  /\ recent' = {}
  /\ UNCHANGED <<saved, chain, chainValid, faults>>

\* Rust carries out a request nobody waits for any more.
AppendLate ==
  \E l \in late :
    /\ chain' = [chain EXCEPT ![l[1]] = Append(@, l[2])]
    /\ late' = late \ {l}
    /\ UNCHANGED <<pipelineVars, recent, chainValid, sent, faults>>

\* The file stops matching the chain, or a restart of Rust makes them agree.
ChainShifts ==
  /\ chainValid' = ~chainValid
  /\ UNCHANGED <<pipelineVars, recent, chain, late, sent, faults>>

\* record_security_event, and the end of the event's ten minutes.
SecurityEvent(a) ==
  /\ recent' = recent \cup {a}
  /\ UNCHANGED <<pipelineVars, auditVars>>

EventExpires(a) ==
  /\ recent' = recent \ {a}
  /\ UNCHANGED <<pipelineVars, auditVars>>

-----------------------------------------------------------------------------

Init ==
  /\ pc = [t \in Tx |-> "idle"]
  /\ kind = [t \in Tx |-> "case.opened"]
  /\ tools = [t \in Tx |-> 0]
  /\ result = [t \in Tx |-> NewResult]
  /\ audit = [t \in Tx |-> NewAudit]
  /\ payment = [t \in Tx |-> NewPayment]
  /\ saved = {}
  /\ recent = {}
  /\ chain = [t \in Tx |-> <<>>]
  /\ late = {}
  /\ chainValid = TRUE
  /\ sent = [t \in Tx |-> <<>>]
  /\ faults = 0

\* The await a running transaction is suspended at returns.
Advance(t) ==
  \/ Record(t) \/ Score(t) \/ AfterRules(t) \/ AfterPrefilter(t)
  \/ Triage(t) \/ AfterTriage(t) \/ Investigate(t) \/ AfterTool(t)
  \/ AfterInvestigation(t) \/ Comply(t) \/ AfterCompliance(t)
  \/ AfterFusion(t) \/ AfterLastEvent(t)
  \/ Verify(t) \/ RecordPolicy(t) \/ VerifyPolicy(t)
  \/ Save(t) \/ Notify(t)

Environment ==
  \/ Crash \/ AppendLate \/ ChainShifts
  \/ \E a \in Account : SecurityEvent(a) \/ EventExpires(a)

Next == Environment \/ \E t \in Tx : Start(t) \/ Advance(t) \/ Fail(t)

Spec == Init /\ [][Next]_vars

\* Every await of the pipeline has a time limit or ends by itself, and the
\* event loop resumes each coroutine whose await is over.
FairSpec == Spec /\ \A t \in Tx : WF_vars(Advance(t))

-----------------------------------------------------------------------------
(* Properties *)

\* Every variable stays in the values its part of the program can hold.
TypeOK ==
  /\ pc \in [Tx -> Pc]
  /\ kind \in [Tx -> Kind]
  /\ tools \in [Tx -> Nat]
  /\ result \in [Tx -> Result]
  /\ audit \in [Tx -> Audit]
  /\ payment \in [Tx -> Payment]
  /\ saved \subseteq Tx
  /\ recent \subseteq Account
  /\ chain \in [Tx -> Seq(Nat \ {0})]
  /\ late \subseteq Tx \X (Nat \ {0})
  /\ chainValid \in BOOLEAN
  /\ sent \in [Tx -> Seq(Kind)]
  /\ faults \in 0..MaxFaults

\* The receipts 1, 2, ..., n, in that order.
FirstReceipts(n) == [i \in 1..n |-> i]

\* A case whose audit is reported verified has every receipt it asked for on
\* the Rust chain, once and in the order of its events: no lost, late or
\* repeated append hides behind the status (orchestrator.py finish and
\* payments.py, whichever of them wrote the status last).
VerifiedMeansComplete ==
  \A t \in Tx :
    audit[t].status = "verified" =>
        /\ chain[t] = FirstReceipts(Len(sent[t]))
        /\ audit[t].entries = chain[t]

\* A simulated execution stands on a complete record ending in its policy
\* receipt, and on a case closed at stage 0: no agent looked at it, no alert
\* was raised. A payment is never executed and held.
ExecutionIsBacked ==
  \A t \in Tx :
    payment[t].executed =>
      /\ payment[t].action = "allow"
      /\ chain[t] = FirstReceipts(Len(sent[t]))
      /\ sent[t] = <<"case.opened", "rules", "prefilter", "closed",
                     "case.completed", "allow">>

\* The audit trail can only make the gate stricter: whatever its failures, a
\* watchlist hit or a critical risk ends blocked, and the action differs from
\* the policy's only by holding what the policy allowed.
AuditNeverLoosens ==
  \A t \in Tx :
    payment[t].action # "none" =>
      /\ (result[t].case.hit \/ RiskOf(result[t]) = "critical")
           => payment[t].action = "block"
      /\ payment[t].action # payment[t].policy
           => (payment[t].policy = "allow" /\ payment[t].action = "hold")

\* The receipts a case asks for tell its verdicts: which checks ran, whether an
\* agent was consulted, what it looked up, and whether the alert was fused with a
\* security event. `n` is the number of tool events.
AppendIf(s, k, said) == IF said THEN Append(s, k) ELSE s

Checked == <<"case.opened", "rules", "prefilter">>
Triaged(r) == AppendIf(Checked, "triage", r.triage # "none")
Searched(r, n) == Triaged(r) \o [i \in 1..n |-> "tool"]
Found(r, n) == AppendIf(Searched(r, n), "investigation", r.triage = "escalate")
Complied(r, n) == AppendIf(Found(r, n), "compliance", r.compliance)
Fused(r, n) == AppendIf(Complied(r, n), "fusion", r.fused)
Closed(r, n) == Append(Fused(r, n), IF r.triage = "escalate" THEN "alert" ELSE "closed")
Trail(r, n, policy) == Append(Append(Closed(r, n), "case.completed"), policy)

\* The trail of a decided case says what its result says, receipt by receipt,
\* although security events come and go between the fusion read, the fusion
\* event and the alert; and a fused alert on a risk of 50 or more is blocked.
TrailTellsTheCase ==
  \A t \in Tx :
    payment[t].action # "none" =>
      /\ \E n \in 0..MaxTools :
           /\ n > 0 => result[t].triage = "escalate"
           /\ sent[t] = Trail(result[t], n, payment[t].policy)
      /\ (result[t].fused /\ result[t].case.score >= 50)
           => payment[t].action = "block"

\* A payment is executed only in a step at which Rust finds its chain valid
\* and with no append of that transaction under way, whatever other
\* transactions and the file went through since the policy was asked.
ExecutesOnValidChain ==
  [][\A t \in Tx :
       (payment'[t].executed /\ ~payment[t].executed) =>
         chainValid /\ \A l \in late : l[1] # t]_vars

\* The policy receipt among the receipts that are on the Rust chain: `asked` are
\* the kinds a case asked for, `landed` the places of those that are there.
PolicyReceiptIn(asked, landed) ==
  LET at == {i \in 1..Len(landed) : asked[landed[i]] \in Action}
  IN  IF at = {} THEN "none" ELSE asked[landed[CHOOSE i \in at : TRUE]]

PolicyReceipt(t) == PolicyReceiptIn(sent[t], chain[t])

Outcome(t) ==
  IF pc[t] \in {"failed", "lost"} /\ t \notin saved THEN "gone"
  ELSE payment[t].action

Gate == INSTANCE PaymentGate
  WITH receipt <- [t \in Tx |-> PolicyReceipt(t)],
       outcome <- [t \in Tx |-> Outcome(t)]

\* The pipeline implements the payment gate: the allow receipt is on the chain
\* before the payment is executed, a case gets at most one policy receipt, and
\* one that lands late never contradicts the outcome.
ImplementsGate == Gate!Spec

\* Every case that was opened is answered, fails, or is lost with the process.
EveryCaseEnds ==
  \A t \in Tx : pc[t] # "idle" ~> pc[t] \in Terminal

=============================================================================
