------------------------- MODULE CasePipelineProofs -------------------------
(* Theorems about CasePipeline, for every set of transactions, of scores and *)
(* of case files and every bound.                                            *)
EXTENDS CasePipeline, SequenceTheorems, TLAPS

-----------------------------------------------------------------------------
(* Type correctness. The countdown of tool events needs its own invariant.  *)

Counting(t) ==
  (pc[t] \in {"record", "cast"} /\ kind[t] = "tool") => tools[t] > 0

TypeInv == TypeOK /\ \A t \in Tx : Counting(t)

\* The severities, policies and receipts the operators compute are of their
\* types.
LEMMA VerdictTypes ==
  ASSUME NEW r \in Result, NEW status, NEW score, NEW fused
  PROVE  /\ SeverityFor(score, fused) \in Severity
         /\ PolicyFor(r, status) \in Action
         /\ WithAlert(r) \in Result
  BY DEF SeverityFor, Severity, PolicyFor, Action, WithAlert, Result

\* Filling in one field of a transaction's audit.
LEMMA AuditUpdates ==
  ASSUME NEW f \in [Tx -> Audit], NEW t \in Tx,
         NEW n \in Nat \ {0}, NEW status \in AuditStatus
  PROVE  /\ [f EXCEPT ![t].entries = Append(@, n)] \in [Tx -> Audit]
         /\ [f EXCEPT ![t].status = status] \in [Tx -> Audit]
         /\ [f EXCEPT ![t].errors = @ + 1, ![t].status = status] \in [Tx -> Audit]
<1>1. [f EXCEPT ![t].entries = Append(@, n)] \in [Tx -> Audit]
  <2>1. Append(f[t].entries, n) \in Seq(Nat \ {0})
    BY DEF Audit
  <2>2. QED
    BY <2>1 DEF Audit
<1>2. [f EXCEPT ![t].status = status] \in [Tx -> Audit]
  BY DEF Audit
<1>3. [f EXCEPT ![t].errors = @ + 1, ![t].status = status] \in [Tx -> Audit]
  <2>1. f[t].errors + 1 \in Nat /\ f[t].entries \in Seq(Nat \ {0})
    BY DEF Audit
  <2>2. [f[t] EXCEPT !.errors = f[t].errors + 1, !.status = status] \in Audit
    BY <2>1 DEF Audit
  <2>3. QED
    BY <2>2
<1>4. QED
  BY <1>1, <1>2, <1>3

LEMMA NewTypes ==
  NewResult \in Result /\ NewAudit \in Audit /\ NewPayment \in Payment
  BY DEF NewResult, NewAudit, NewPayment, Result, Audit, AuditStatus, Payment, NoScore, NoCase

LEMMA InitTypes == Init => TypeInv
  BY PipelineAssumption, NewTypes
  DEF Init, TypeInv, TypeOK, Counting, Pc, Kind

\* The steps of one transaction keep the types.
LEMMA AdvanceTypes ==
  ASSUME TypeInv, NEW t \in Tx, Start(t) \/ Advance(t) \/ Fail(t)
  PROVE  TypeInv'
<1> USE DEF Emit, Suspend, auditVars
<1>a. result \in [Tx -> Result]
  BY DEF TypeInv, TypeOK
<1>b. /\ audit \in [Tx -> Audit] /\ faults \in 0..MaxFaults
      /\ audit[t].status \in AuditStatus
  BY DEF TypeInv, TypeOK, Audit
<1>c. payment \in [Tx -> Payment]
  BY DEF TypeInv, TypeOK
<1>d. /\ result[t] \in Result
      /\ sent \in [Tx -> Seq(Kind)] /\ kind[t] \in Kind
      /\ Len(sent[t]) + 1 \in Nat \ {0}
  BY DEF TypeInv, TypeOK
<1>e. /\ late \subseteq Tx \X (Nat \ {0})
      /\ chain \in [Tx -> Seq(Nat \ {0})]
  BY DEF TypeInv, TypeOK
\* Steps that record or verify touch the same four variables.
<1>f. ASSUME Acknowledged(t, kind[t])
      PROVE  /\ audit' \in [Tx -> Audit] /\ sent' \in [Tx -> Seq(Kind)]
             /\ chain' \in [Tx -> Seq(Nat \ {0})]
             /\ late' = late /\ faults' = faults
  <2>1. audit' \in [Tx -> Audit]
    BY <1>b, <1>d, <1>f, AuditUpdates DEF Acknowledged
  <2>2. QED
    BY <1>d, <1>e, <1>f, <2>1 DEF Acknowledged
<1>g. ASSUME NEW status \in AuditStatus, Raised(t, kind[t], status)
      PROVE  /\ audit' \in [Tx -> Audit] /\ sent' \in [Tx -> Seq(Kind)]
             /\ late' \subseteq Tx \X (Nat \ {0}) /\ faults' \in 0..MaxFaults
             /\ chain' = chain
  <2>1. audit' \in [Tx -> Audit]
    BY <1>b, <1>d, <1>g, AuditUpdates DEF Raised
  <2>2. faults' \in 0..MaxFaults
    BY <1>b, <1>g, PipelineAssumption DEF Raised
  <2>3. late' \subseteq Tx \X (Nat \ {0})
    BY <1>d, <1>e, <1>g DEF Raised
  <2>4. QED
    BY <1>d, <1>g, <2>1, <2>2, <2>3 DEF Raised
<1>h. ASSUME NEW status \in AuditStatus, VerificationRaised(t, status)
      PROVE  audit' \in [Tx -> Audit] /\ faults' \in 0..MaxFaults
  <2>1. audit' \in [Tx -> Audit]
    BY <1>b, <1>d, <1>h, AuditUpdates DEF VerificationRaised
  <2>2. QED
    BY <1>b, <1>h, <2>1, PipelineAssumption DEF VerificationRaised
<1>i. ASSUME NEW verified \in BOOLEAN, Settle(t, verified), UNCHANGED <<kind, tools>>
      PROVE  /\ payment' \in [Tx -> Payment] /\ pc' \in [Tx -> Pc]
             /\ \A u \in Tx : Counting(u)'
  <2>1. payment' \in [Tx -> Payment]
    <3>1. payment[t].policy \in Action \cup {"none"}
      BY <1>c DEF Payment
    <3>2. ASSUME NEW f \in [Tx -> Payment], NEW a \in Action \cup {"none"}
          PROVE  [f EXCEPT ![t].action = a, ![t].executed = (a = "allow")]
                   \in [Tx -> Payment]
      BY ZenonT(30) DEF Payment
    <3>3. QED
      BY <1>c, <1>i, <3>1, <3>2 DEF Settle, Action
  <2>2. QED
    BY <1>i, <2>1 DEF Settle, Pc, TypeInv, TypeOK, Counting
<1>1. CASE Start(t)
  BY <1>1 DEF Start, Pc, Kind, TypeInv, TypeOK, Counting
<1>2. CASE Record(t)
  <2>1. /\ AfterReceipt(kind[t]) \in Pc
        /\ AfterReceipt(kind[t]) = "cast" \/ kind[t] # "tool"
    BY DEF AfterReceipt, Pc
  <2>2. pc' \in [Tx -> Pc] /\ (\A u \in Tx : Counting(u)')
    BY <1>2, <2>1 DEF Record, TypeInv, TypeOK, Counting
  <2>3. CASE Acknowledged(t, kind[t])
    BY <1>2, <1>f, <2>2, <2>3 DEF Record, TypeInv, TypeOK
  <2>4. CASE Raised(t, kind[t], audit[t].status)
    BY <1>2, <1>b, <1>g, <2>2, <2>4 DEF Record, TypeInv, TypeOK
  <2>5. QED
    BY <1>2, <2>3, <2>4 DEF Record
<1>3. CASE Score(t)
  <2>1. result' \in [Tx -> Result]
    BY <1>3, <1>a DEF Score, Result
  <2>2. QED
    BY <1>3, <2>1 DEF Score, Pc, Kind, TypeInv, TypeOK, Counting
<1>4. CASE AfterRules(t)
  <2>1. PICK v \in {"normal", "anomaly"} :
          result' = [result EXCEPT ![t].prefilter = v]
    BY <1>4 DEF AfterRules
  <2>2. result' \in [Tx -> Result]
    BY <2>1, <1>a DEF Result
  <2>3. QED
    BY <1>4, <2>2 DEF AfterRules, Pc, Kind, TypeInv, TypeOK, Counting
<1>5. CASE AfterPrefilter(t)
  BY <1>5 DEF AfterPrefilter, Cast, Pc, Kind, TypeInv, TypeOK, Counting
<1>6. CASE Triage(t)
  <2>1. result' \in [Tx -> Result]
    BY <1>6, <1>a DEF Triage, Result
  <2>2. QED
    BY <1>6, <2>1 DEF Triage, Pc, Kind, TypeInv, TypeOK, Counting
<1>7. CASE AfterTriage(t)
  BY <1>7 DEF AfterTriage, Cast, Pc, Kind, TypeInv, TypeOK, Counting
<1>8. CASE Investigate(t)
  <2>1. PICK c \in CaseFiles, n \in 0..MaxTools :
          /\ result' = [result EXCEPT ![t].case = c]
          /\ tools' = [tools EXCEPT ![t] = n]
          /\ Emit(t, NextFinding(n))
    BY <1>8 DEF Investigate
  <2>2. result' \in [Tx -> Result]
    BY <2>1, <1>a, ZenonT(30) DEF Result
  <2>3. n \in Nat /\ NextFinding(n) \in Kind /\ (NextFinding(n) = "tool" => n > 0)
    BY PipelineAssumption DEF NextFinding, Kind
  <2>4. QED
    BY <1>8, <2>1, <2>2, <2>3 DEF Investigate, Pc, TypeInv, TypeOK, Counting
<1>9. CASE AfterTool(t)
  <2>1. tools[t] - 1 \in Nat
    BY <1>9 DEF AfterTool, Cast, TypeInv, TypeOK, Counting
  <2>2. /\ NextFinding(tools[t] - 1) \in Kind
        /\ NextFinding(tools[t] - 1) = "tool" => tools[t] - 1 > 0
    BY <2>1 DEF NextFinding, Kind
  <2>3. QED
    BY <1>9, <2>1, <2>2 DEF AfterTool, Pc, TypeInv, TypeOK, Counting
<1>10. ASSUME Fuse(t), UNCHANGED <<tools, audit, payment, saved, recent, auditVars>>
       PROVE  TypeInv'
  <2>1. CASE AccountOf[t] \in recent
    <3>1. result' = [result EXCEPT ![t].fused = TRUE]
      BY <1>10, <2>1 DEF Fuse
    <3>2. result' \in [Tx -> Result]
      BY <1>a, <3>1, ZenonT(30) DEF Result
    <3>3. QED
      BY <1>10, <2>1, <3>2 DEF Fuse, Pc, Kind, TypeInv, TypeOK, Counting
  <2>2. CASE AccountOf[t] \notin recent
    <3>1. WithAlert(result[t]) \in Result
      BY <1>d, VerdictTypes
    <3>2. result' \in [Tx -> Result]
      BY <1>10, <1>a, <2>2, <3>1 DEF Fuse
    <3>3. QED
      BY <1>10, <2>2, <3>2 DEF Fuse, Pc, Kind, TypeInv, TypeOK, Counting
  <2>3. QED
    BY <2>1, <2>2
<1>11. CASE AfterInvestigation(t)
  <2>1. CASE result[t].case.recommend
    BY <1>11, <2>1 DEF AfterInvestigation, Cast, Pc, Kind, TypeInv, TypeOK, Counting
  <2>2. CASE ~result[t].case.recommend
    BY <1>10, <1>11, <2>2 DEF AfterInvestigation
  <2>3. QED
    BY <2>1, <2>2
<1>12. CASE Comply(t)
  <2>1. result' \in [Tx -> Result]
    BY <1>12, <1>a, ZenonT(30) DEF Comply, Result
  <2>2. QED
    BY <1>12, <2>1 DEF Comply, Pc, Kind, TypeInv, TypeOK, Counting
<1>13. CASE AfterCompliance(t)
  BY <1>10, <1>13 DEF AfterCompliance
<1>14. CASE AfterFusion(t)
  <2>1. WithAlert(result[t]) \in Result
    BY <1>d, VerdictTypes
  <2>2. result' \in [Tx -> Result]
    BY <1>14, <1>a, <2>1 DEF AfterFusion
  <2>3. QED
    BY <1>14, <2>2 DEF AfterFusion, Pc, Kind, TypeInv, TypeOK, Counting
<1>15. CASE AfterLastEvent(t)
  BY <1>15 DEF AfterLastEvent, Pc, Kind, TypeInv, TypeOK, Counting
<1>16. CASE Verify(t)
  <2>1. PICK status \in AuditStatus : AskPolicy(t, status)
    BY <1>16 DEF Verify, StatusOf, AuditStatus
  <2>2. PolicyFor(result[t], status) \in Action
    BY <1>d, VerdictTypes
  <2>3. payment' \in [Tx -> Payment]
    <3>1. ASSUME NEW f \in [Tx -> Payment], NEW a \in Action
          PROVE  [f EXCEPT ![t].policy = a] \in [Tx -> Payment]
      BY DEF Payment
    <3>2. QED
      BY <1>c, <2>1, <2>2, <3>1 DEF AskPolicy
  <2>4. kind' \in [Tx -> Kind] /\ pc' \in [Tx -> Pc] /\ (\A u \in Tx : Counting(u)')
    BY <1>16, <2>1, <2>2
    DEF AskPolicy, Verify, Kind, Pc, TypeInv, TypeOK, Counting
  <2>5. audit' \in [Tx -> Audit] /\ faults' \in 0..MaxFaults
    <3>1. StatusOf(chainValid, audit[t].errors) \in AuditStatus
      BY DEF StatusOf, AuditStatus
    <3>2. CASE /\ audit' = [audit EXCEPT ![t].status = StatusOf(chainValid, audit[t].errors)]
               /\ faults' = faults
      BY <1>b, <1>d, <3>1, <3>2, AuditUpdates
    <3>3. CASE VerificationRaised(t, "unavailable")
      BY <1>h, <3>3 DEF AuditStatus
    <3>4. QED
      BY <1>16, <3>2, <3>3 DEF Verify
  <2>6. QED
    BY <1>16, <2>3, <2>4, <2>5 DEF Verify, TypeInv, TypeOK
<1>j. StatusAfterFailure(audit[t].status) \in AuditStatus
  BY DEF StatusAfterFailure, AuditStatus
<1>17. CASE RecordPolicy(t)
  <2>1. CASE /\ Acknowledged(t, kind[t])
             /\ Suspend(t, "policyVerify")
             /\ UNCHANGED payment
    BY <1>17, <1>f, <2>1 DEF RecordPolicy, Pc, TypeInv, TypeOK, Counting
  <2>2. CASE /\ Raised(t, kind[t], StatusAfterFailure(audit[t].status))
             /\ Settle(t, FALSE)
    BY <1>17, <1>g, <1>i, <1>j, <2>2 DEF RecordPolicy, TypeInv, TypeOK
  <2>3. QED
    BY <1>17, <2>1, <2>2 DEF RecordPolicy
<1>18. CASE VerifyPolicy(t)
  <2>1. CASE /\ audit' = [audit EXCEPT ![t].status = StatusOf(chainValid, audit[t].errors)]
             /\ Settle(t, chainValid /\ audit[t].errors = 0)
             /\ UNCHANGED faults
    <3>1. StatusOf(chainValid, audit[t].errors) \in AuditStatus
      BY DEF StatusOf, AuditStatus
    <3>2. audit' \in [Tx -> Audit] /\ faults' \in 0..MaxFaults
      BY <1>b, <1>d, <2>1, <3>1, AuditUpdates
    <3>3. (chainValid /\ audit[t].errors = 0) \in BOOLEAN
      OBVIOUS
    <3>4. QED
      BY <1>18, <1>i, <2>1, <3>2, <3>3 DEF VerifyPolicy, TypeInv, TypeOK
  <2>2. CASE /\ VerificationRaised(t, StatusAfterFailure(audit[t].status))
             /\ Settle(t, FALSE)
    BY <1>18, <1>h, <1>i, <1>j, <2>2 DEF VerifyPolicy, TypeInv, TypeOK
  <2>3. QED
    BY <1>18, <2>1, <2>2 DEF VerifyPolicy
<1>19. CASE Save(t)
  BY <1>19 DEF Save, Pc, TypeInv, TypeOK, Counting
<1>20. CASE Notify(t)
  BY <1>20 DEF Notify, Pc, Terminal, TypeInv, TypeOK, Counting
<1>21. CASE Fail(t)
  BY <1>21, NewTypes
  DEF Fail, Forget, Unsaved, Pc, Terminal, Kind, TypeInv, TypeOK, Counting
<1>22. QED
  BY <1>1, <1>2, <1>3, <1>4, <1>5, <1>6, <1>7, <1>8, <1>9, <1>11, <1>12, <1>13,
     <1>14, <1>15, <1>16, <1>17, <1>18, <1>19, <1>20, <1>21 DEF Advance

\* A crash, a late append, a chain that shifts and security events keep them.
LEMMA EnvironmentTypes ==
  ASSUME TypeInv, Environment
  PROVE  TypeInv'
<1>1. CASE Crash
  <2>1. /\ kind' \in [Tx -> Kind] /\ tools' \in [Tx -> Nat]
        /\ result' \in [Tx -> Result] /\ audit' \in [Tx -> Audit]
        /\ payment' \in [Tx -> Payment]
    BY <1>1, NewTypes DEF Crash, Forget, TypeInv, TypeOK, Kind
  <2>2. pc' \in [Tx -> Pc] /\ (\A t \in Tx : Counting(t)')
    BY <1>1 DEF Crash, Forget, Unsaved, Running, Terminal, Pc, TypeInv, TypeOK, Counting
  <2>3. sent' \in [Tx -> Seq(Kind)]
    BY <1>1 DEF Crash, TypeInv, TypeOK
  <2>4. late' \subseteq Tx \X (Nat \ {0})
    <3>1. \A t \in Tx : Len(sent[t]) + 1 \in Nat \ {0}
      BY DEF TypeInv, TypeOK
    <3>2. QED
      BY <1>1, <3>1 DEF Crash, TypeInv, TypeOK
  <2>5. QED
    BY <1>1, <2>1, <2>2, <2>3, <2>4 DEF Crash, TypeInv, TypeOK
<1>2. CASE AppendLate
  <2>1. PICK l \in late : /\ chain' = [chain EXCEPT ![l[1]] = Append(@, l[2])]
                          /\ late' = late \ {l}
    BY <1>2 DEF AppendLate
  <2>2. l[1] \in Tx /\ l[2] \in Nat \ {0}
    BY <2>1 DEF TypeInv, TypeOK
  <2>3. chain' \in [Tx -> Seq(Nat \ {0})]
    BY <2>1, <2>2 DEF TypeInv, TypeOK
  <2>4. QED
    BY <1>2, <2>1, <2>3, SMTT(30) DEF AppendLate, pipelineVars, TypeInv, TypeOK, Counting
<1>3. CASE ChainShifts
  BY <1>3 DEF ChainShifts, pipelineVars, TypeInv, TypeOK, Counting
<1>4. CASE \E a \in Account : SecurityEvent(a) \/ EventExpires(a)
  BY <1>4 DEF SecurityEvent, EventExpires, pipelineVars, auditVars,
              TypeInv, TypeOK, Counting
<1>5. QED
  BY <1>1, <1>2, <1>3, <1>4 DEF Environment

LEMMA StutterTypes == TypeInv /\ UNCHANGED vars => TypeInv'
  BY DEF vars, pipelineVars, auditVars, TypeInv, TypeOK, Counting

LEMMA TypeInvariance == Spec => []TypeInv
<1>1. TypeInv /\ [Next]_vars => TypeInv'
  BY AdvanceTypes, EnvironmentTypes, StutterTypes DEF Next
<1>2. QED
  BY <1>1, InitTypes, PTL DEF Spec

\* Every variable of the pipeline keeps its type: in particular the countdown
\* of tool events, which nothing in the code bounds below, never passes zero.
THEOREM TypeCorrect == Spec => []TypeOK
<1>1. TypeInv => TypeOK
  BY DEF TypeInv
<1>2. QED
  BY <1>1, TypeInvariance, PTL

-----------------------------------------------------------------------------
(* The inductive invariant behind the payment gate.                         *)

\* The case still exists somewhere: in the coroutine, or as a saved row.
Kept(t) == pc[t] \notin {"failed", "lost"} \/ t \in saved

Settled == {"save", "notify"} \cup Terminal

\* Where the program is bounds what it has already done.
Where(t) ==
  /\ t \in saved => pc[t] \in {"notify"} \cup Terminal
  /\ payment[t].policy # "none" => pc[t] \in {"policyAppend", "policyVerify"} \cup Settled
  /\ pc[t] = "policyAppend" => kind[t] = payment[t].policy
  /\ payment[t].action # "none" => pc[t] \in Settled

\* A failure takes the result away before it can be read again.
Forgotten(t) ==
  ~Kept(t) => (audit[t] = NewAudit /\ payment[t] = NewPayment)

\* Without an error every receipt asked for is on the chain and none is late.
Ledger(t) ==
  (Kept(t) /\ audit[t].errors = 0) =>
    /\ chain[t] = FirstReceipts(Len(sent[t]))
    /\ audit[t].entries = chain[t]
    /\ \A l \in late : l[1] # t

\* Verified is only ever said without an error, and not before verification.
Honest(t) ==
  audit[t].status = "verified" =>
    audit[t].errors = 0 /\ pc[t] \in {"policyAppend", "policyVerify"} \cup Settled

\* The receipts of a case no agent has looked at, and the first n of them.
ShortTrail == <<"case.opened", "rules", "prefilter", "closed", "case.completed">>
First(n) == [i \in 1..n |-> ShortTrail[i]]

Position(t) ==
  LET At(await, k, trail) == pc[t] = await /\ kind[t] = k /\ sent[t] = trail IN
  \/ pc[t] = "idle" /\ sent[t] = First(0)
  \/ At("record", "case.opened", First(0))
  \/ pc[t] = "score" /\ sent[t] = First(1)
  \/ At("record", "rules", First(1))
  \/ At("cast", "rules", First(2))
  \/ At("record", "prefilter", First(2))
  \/ At("cast", "prefilter", First(3))
  \/ pc[t] = "triage" /\ sent[t] = First(3)
  \/ At("record", "closed", First(3))
  \/ At("cast", "closed", First(4))
  \/ At("record", "case.completed", First(4))
  \/ pc[t] = "verify" /\ sent[t] = First(5)
  \/ pc[t] = "policyAppend" /\ sent[t] = First(5)
  \/ (pc[t] \in {"policyVerify"} \cup Settled) /\ sent[t] = Append(First(5), payment[t].policy)

\* Untriaged, a case is somewhere on the short path; triage is reached only
\* with a signal.
Path(t) ==
  /\ (\/ pc[t] \in {"idle", "score", "triage"}
      \/ pc[t] \in {"record", "cast"} /\ kind[t] \in {"case.opened", "rules", "prefilter"})
       => result[t].triage = "none"
  /\ (Kept(t) /\ result[t].triage = "none") => Position(t)
  /\ (pc[t] = "triage" \/ result[t].triage # "none") => ~NothingToEscalate(result[t])

\* What the policy has concluded still holds of the result.
Judged(t) ==
  /\ payment[t].policy = "allow" => NothingToEscalate(result[t])
  /\ (payment[t].policy # "none" /\ (result[t].case.hit \/ RiskOf(result[t]) = "critical"))
       => payment[t].policy = "block"

\* What was decided follows from the policy; execution, from a clean trail.
Decision(t) ==
  /\ \/ payment[t].action \in {"none", payment[t].policy}
     \/ (payment[t].action = "hold" /\ payment[t].policy = "allow")
  /\ payment[t].executed => (payment[t].action = "allow" /\ audit[t].errors = 0)

GateInv(t) ==
  /\ Where(t) /\ Forgotten(t) /\ Ledger(t) /\ Honest(t)
  /\ Path(t) /\ Judged(t) /\ Decision(t)

IInv == TypeInv /\ \A t \in Tx : GateInv(t)

LEMMA InitGate == Init => \A t \in Tx : GateInv(t)
<1> SUFFICES ASSUME Init, NEW t \in Tx PROVE GateInv(t)
  OBVIOUS
<1>1. chain[t] = FirstReceipts(Len(sent[t]))
  BY DEF Init, FirstReceipts
<1>2. QED
  BY <1>1
  DEF Init, GateInv, Where, Forgotten, Ledger, Honest, Path, Judged, Decision, Kept,
      Position, First, NewResult, NewAudit, NewPayment, Terminal

\* A step that leaves everything of a transaction alone, and makes none of its
\* appends late, keeps its part of the invariant.
Untouched(t) ==
  /\ pc'[t] = pc[t] /\ kind'[t] = kind[t] /\ tools'[t] = tools[t]
  /\ result'[t] = result[t]
  /\ audit'[t] = audit[t] /\ payment'[t] = payment[t]
  /\ chain'[t] = chain[t] /\ sent'[t] = sent[t]
  /\ t \in saved' <=> t \in saved
  /\ \A l \in late' : l[1] = t => l \in late

LEMMA Frame ==
  ASSUME NEW t \in Tx, GateInv(t), Untouched(t)
  PROVE  GateInv(t)'
<1>1. (Kept(t)' <=> Kept(t)) /\ (Position(t)' <=> Position(t))
  BY DEF Untouched, Kept, Position
<1>2. Where(t)' /\ Forgotten(t)' /\ Honest(t)' /\ Judged(t)' /\ Decision(t)'
  BY <1>1 DEF Untouched, GateInv, Where, Forgotten, Honest, Judged, Decision
<1>3. Ledger(t)'
  BY <1>1 DEF Untouched, GateInv, Ledger
<1>4. Path(t)'
  BY <1>1 DEF Untouched, GateInv, Path
<1>5. QED
  BY <1>2, <1>3, <1>4 DEF GateInv

\* A transaction's step leaves the others alone.
LEMMA OthersUntouched ==
  ASSUME TypeInv, NEW t \in Tx, Start(t) \/ Advance(t) \/ Fail(t),
         NEW u \in Tx, u # t
  PROVE  Untouched(u)
<1> USE DEF Emit, Suspend, auditVars
<1>1. CASE Start(t)
  BY <1>1 DEF Start, Untouched, TypeInv, TypeOK
<1>a. ASSUME Acknowledged(t, kind[t])
      PROVE  /\ audit'[u] = audit[u] /\ chain'[u] = chain[u] /\ sent'[u] = sent[u]
             /\ late' = late
  BY <1>a DEF Acknowledged, TypeInv, TypeOK
<1>b. ASSUME NEW status, Raised(t, kind[t], status)
      PROVE  /\ audit'[u] = audit[u] /\ chain'[u] = chain[u] /\ sent'[u] = sent[u]
             /\ \A l \in late' : l[1] = u => l \in late
  BY <1>b DEF Raised, TypeInv, TypeOK
<1>2. CASE Record(t)
  BY <1>2, <1>a, <1>b DEF Record, Untouched, TypeInv, TypeOK
<1>3. CASE Score(t)
  BY <1>3 DEF Score, Untouched, TypeInv, TypeOK
<1>4. CASE AfterRules(t)
  BY <1>4 DEF AfterRules, Untouched, TypeInv, TypeOK
<1>5. CASE AfterPrefilter(t)
  BY <1>5 DEF AfterPrefilter, Untouched, TypeInv, TypeOK
<1>6. CASE Triage(t)
  BY <1>6 DEF Triage, Untouched, TypeInv, TypeOK
<1>7. CASE AfterTriage(t)
  BY <1>7 DEF AfterTriage, Untouched, TypeInv, TypeOK
<1>8. CASE Investigate(t)
  BY <1>8 DEF Investigate, Untouched, TypeInv, TypeOK
<1>9. CASE AfterTool(t)
  BY <1>9 DEF AfterTool, Untouched, TypeInv, TypeOK
<1>10. CASE AfterInvestigation(t)
  BY <1>10 DEF AfterInvestigation, Fuse, Untouched, TypeInv, TypeOK
<1>11. CASE Comply(t)
  BY <1>11 DEF Comply, Untouched, TypeInv, TypeOK
<1>12. CASE AfterCompliance(t)
  BY <1>12 DEF AfterCompliance, Fuse, Untouched, TypeInv, TypeOK
<1>13. CASE AfterFusion(t)
  BY <1>13 DEF AfterFusion, Untouched, TypeInv, TypeOK
<1>14. CASE AfterLastEvent(t)
  BY <1>14 DEF AfterLastEvent, Untouched, TypeInv, TypeOK
<1>15. CASE Verify(t)
  BY <1>15 DEF Verify, VerificationRaised, AskPolicy, Untouched, TypeInv, TypeOK
<1>16. CASE RecordPolicy(t)
  BY <1>16, <1>a, <1>b DEF RecordPolicy, Settle, Untouched, TypeInv, TypeOK
<1>17. CASE VerifyPolicy(t)
  BY <1>17 DEF VerifyPolicy, VerificationRaised, Settle, Untouched, TypeInv, TypeOK
<1>18. CASE Save(t)
  BY <1>18 DEF Save, Untouched, TypeInv, TypeOK
<1>19. CASE Notify(t)
  BY <1>19 DEF Notify, Untouched, TypeInv, TypeOK
<1>20. CASE Fail(t)
  BY <1>20 DEF Fail, Forget, Unsaved, Untouched, TypeInv, TypeOK
<1>21. QED
  BY <1>1, <1>2, <1>3, <1>4, <1>5, <1>6, <1>7, <1>8, <1>9, <1>10, <1>11, <1>12,
     <1>13, <1>14, <1>15, <1>16, <1>17, <1>18, <1>19, <1>20 DEF Advance

-----------------------------------------------------------------------------
(* A transaction's own step keeps its part of the invariant.                *)

\* Before the policy is asked nothing of the payment is decided.
Early == {"idle", "record", "cast", "score", "triage", "investigate", "comply"}

\* A step that only moves on within the pipeline disturbs nothing but Path.
LEMMA EarlyStep ==
  ASSUME NEW t \in Tx, GateInv(t), pc[t] \in Early, pc'[t] \in Early,
         UNCHANGED <<audit, payment, saved, chain, late, sent>>
  PROVE  /\ payment[t].policy = "none" /\ Kept(t) /\ Kept(t)'
         /\ Where(t)' /\ Forgotten(t)' /\ Ledger(t)' /\ Honest(t)'
         /\ Judged(t)' /\ Decision(t)'
<1>1. /\ payment[t].policy = "none" /\ payment[t].action = "none"
      /\ ~payment[t].executed /\ t \notin saved
  BY DEF GateInv, Where, Decision, Early, Settled, Terminal
<1>2. Kept(t) /\ Kept(t)'
  BY DEF Kept, Early
<1>3. Where(t)' /\ Forgotten(t)' /\ Honest(t)' /\ Judged(t)' /\ Decision(t)'
  BY <1>1, <1>2
  DEF GateInv, Where, Forgotten, Honest, Judged, Decision, Early, Settled, Terminal
<1>4. Ledger(t)'
  BY <1>2 DEF GateInv, Ledger
<1>5. QED
  BY <1>1, <1>2, <1>3, <1>4

\* Whether stage 0 may close a case depends on the first two verdicts only.
LEMMA SameSignal ==
  ASSUME NEW r, NEW q, q.rules = r.rules, q.prefilter = r.prefilter
  PROVE  NothingToEscalate(q) <=> NothingToEscalate(r)
  BY DEF NothingToEscalate

LEMMA EarlySteps ==
  ASSUME TypeInv, NEW t \in Tx, GateInv(t),
         \/ Start(t) \/ Score(t) \/ AfterRules(t) \/ AfterPrefilter(t)
         \/ Triage(t) \/ AfterTriage(t) \/ Investigate(t) \/ AfterTool(t)
         \/ AfterInvestigation(t) \/ Comply(t) \/ AfterCompliance(t)
         \/ AfterFusion(t) \/ AfterLastEvent(t)
  PROVE  GateInv(t)'
<1> USE DEF Emit, Suspend, auditVars
<1>a. /\ pc \in [Tx -> Pc] /\ kind \in [Tx -> Kind]
      /\ result \in [Tx -> Result] /\ result[t] \in Result
  BY DEF TypeInv, TypeOK
<1>b. Path(t)
  BY DEF GateInv
\* It is enough that the step moves on early and keeps Path.
<1>c. ASSUME pc[t] \in Early, pc'[t] \in Early,
             UNCHANGED <<audit, payment, saved, chain, late, sent>>, Path(t)'
      PROVE  GateInv(t)'
  BY <1>c, EarlyStep DEF GateInv
<1>1. CASE Start(t)
  <2>1. /\ pc[t] = "idle" /\ pc'[t] = "record" /\ kind'[t] = "case.opened"
        /\ result' = result /\ sent' = sent
    BY <1>1, <1>a DEF Start
  <2>2. Path(t)'
    BY <1>b, <2>1 DEF Path, Position, Kept, Settled, Terminal
  <2>3. QED
    BY <1>1, <1>c, <2>1, <2>2 DEF Start, Early
<1>2. CASE Score(t)
  <2>1. PICK s \in RuleScores : result' = [result EXCEPT ![t].rules = s]
    BY <1>2 DEF Score
  <2>2. /\ pc[t] = "score" /\ pc'[t] = "record" /\ kind'[t] = "rules"
        /\ result'[t].triage = result[t].triage /\ sent' = sent
    BY <1>2, <1>a, <2>1 DEF Score, Result
  <2>3. result[t].triage = "none"
    BY <1>b, <2>2 DEF Path
  <2>4. Path(t)'
    BY <1>b, <2>2, <2>3 DEF Path, Position, Kept, Settled, Terminal
  <2>5. QED
    BY <1>2, <1>c, <2>2, <2>4 DEF Score, Early
<1>3. CASE AfterRules(t)
  <2>1. PICK v \in {"normal", "anomaly"} :
          result' = [result EXCEPT ![t].prefilter = v]
    BY <1>3 DEF AfterRules
  <2>2. /\ pc[t] = "cast" /\ kind[t] = "rules"
        /\ pc'[t] = "record" /\ kind'[t] = "prefilter"
        /\ result'[t].triage = result[t].triage /\ sent' = sent
    BY <1>3, <1>a, <2>1 DEF AfterRules, Cast, Result
  <2>3. result[t].triage = "none"
    BY <1>b, <2>2 DEF Path
  <2>4. Path(t)'
    BY <1>b, <2>2, <2>3 DEF Path, Position, Kept, Settled, Terminal
  <2>5. QED
    BY <1>3, <1>c, <2>2, <2>4 DEF AfterRules, Early
<1>4. CASE AfterPrefilter(t)
  <2>1. /\ pc[t] = "cast" /\ kind[t] = "prefilter" /\ result' = result /\ sent' = sent
        /\ \/ pc'[t] = "record" /\ kind'[t] = "closed"
           \/ pc'[t] = "triage" /\ ~NothingToEscalate(result[t])
    BY <1>4, <1>a DEF AfterPrefilter, Cast
  <2>2. Path(t)'
    BY <1>b, <2>1 DEF Path, Position, Kept, Settled, Terminal
  <2>3. QED
    BY <1>4, <1>c, <2>1, <2>2 DEF AfterPrefilter, Early
<1>5. CASE Triage(t)
  <2>1. PICK v \in {"dismiss", "escalate"} :
          result' = [result EXCEPT ![t].triage = v]
    BY <1>5 DEF Triage
  <2>2. /\ pc[t] = "triage" /\ pc'[t] = "record" /\ kind'[t] = "triage"
        /\ result'[t].triage # "none"
        /\ result'[t].rules = result[t].rules
        /\ result'[t].prefilter = result[t].prefilter
    BY <1>5, <1>a, <2>1 DEF Triage, Result
  <2>3. ~NothingToEscalate(result[t])'
    BY <1>b, <2>2 DEF Path, NothingToEscalate
  <2>4. Path(t)'
    BY <2>2, <2>3 DEF Path
  <2>5. QED
    BY <1>5, <1>c, <2>2, <2>4 DEF Triage, Early
\* From here on the case has been triaged, or is being closed.
<1>d. ASSUME result'[t].triage = result[t].triage,
             result'[t].rules = result[t].rules,
             result'[t].prefilter = result[t].prefilter,
             result[t].triage # "none",
             \/ /\ pc'[t] = "record"
                /\ kind'[t] \notin {"case.opened", "rules", "prefilter"}
             \/ pc'[t] \in {"investigate", "comply"}
      PROVE  Path(t)'
  <2>1. ~NothingToEscalate(result[t])'
    BY <1>b, <1>d DEF Path, NothingToEscalate
  <2>2. QED
    BY <1>d, <2>1 DEF Path
<1>e. ASSUME \/ pc[t] \in {"investigate", "comply"}
             \/ pc[t] = "cast" /\ kind[t] \in {"triage", "tool", "investigation",
                                              "compliance", "fusion", "alert"}
      PROVE  result[t].triage # "none"
  BY <1>b, <1>e DEF Path, Position, Kept, Settled, Terminal
<1>6. CASE AfterTriage(t)
  <2>1. /\ pc[t] = "cast" /\ kind[t] = "triage" /\ result' = result
        /\ \/ pc'[t] = "record" /\ kind'[t] = "closed"
           \/ pc'[t] = "investigate"
    BY <1>6, <1>a DEF AfterTriage, Cast
  <2>2. Path(t)'
    BY <1>d, <1>e, <2>1
  <2>3. QED
    BY <1>6, <1>c, <2>1, <2>2 DEF AfterTriage, Early
<1>f. \A left : NextFinding(left) \notin {"case.opened", "rules", "prefilter"}
  BY DEF NextFinding
<1>7. CASE Investigate(t)
  <2>1. PICK c \in CaseFiles, n \in 0..MaxTools :
          /\ result' = [result EXCEPT ![t].case = c]
          /\ Emit(t, NextFinding(n))
    BY <1>7 DEF Investigate
  <2>2. /\ pc[t] = "investigate" /\ pc'[t] = "record" /\ kind'[t] = NextFinding(n)
        /\ result'[t].triage = result[t].triage
        /\ result'[t].rules = result[t].rules
        /\ result'[t].prefilter = result[t].prefilter
    BY <1>7, <1>a, <2>1 DEF Investigate, Result
  <2>3. Path(t)'
    BY <1>d, <1>e, <1>f, <2>2
  <2>4. QED
    BY <1>7, <1>c, <2>2, <2>3 DEF Investigate, Early
<1>8. CASE AfterTool(t)
  <2>1. /\ pc[t] = "cast" /\ kind[t] = "tool" /\ result' = result
        /\ pc'[t] = "record" /\ kind'[t] = NextFinding(tools[t] - 1)
    BY <1>8, <1>a DEF AfterTool, Cast
  <2>2. Path(t)'
    BY <1>d, <1>e, <1>f, <2>1
  <2>3. QED
    BY <1>8, <1>c, <2>1, <2>2 DEF AfterTool, Early
<1>g. /\ WithAlert(result[t]).triage = result[t].triage
      /\ WithAlert(result[t]).rules = result[t].rules
      /\ WithAlert(result[t]).prefilter = result[t].prefilter
  BY <1>a DEF WithAlert, Result
<1>9. ASSUME Cast(t, "investigation") \/ Cast(t, "compliance"), Fuse(t),
             UNCHANGED <<audit, payment, saved, auditVars>>
      PROVE  GateInv(t)'
  <2>1. /\ pc[t] = "cast" /\ kind[t] \in {"investigation", "compliance"}
        /\ pc'[t] = "record" /\ kind'[t] \in {"fusion", "alert"}
    BY <1>9, <1>a DEF Fuse, Cast
  <2>2. /\ result'[t].triage = result[t].triage
        /\ result'[t].rules = result[t].rules
        /\ result'[t].prefilter = result[t].prefilter
    <3>1. CASE result' = [result EXCEPT ![t].fused = TRUE]
      BY <1>a, <3>1 DEF Result
    <3>2. CASE result' = [result EXCEPT ![t] = WithAlert(result[t])]
      BY <1>a, <1>g, <3>2
    <3>3. QED
      BY <1>9, <3>1, <3>2 DEF Fuse
  <2>3. Path(t)'
    BY <1>d, <1>e, <2>1, <2>2
  <2>4. QED
    BY <1>9, <1>c, <2>1, <2>3 DEF Early
<1>10. CASE AfterInvestigation(t)
  <2>1. CASE Fuse(t)
    BY <1>9, <1>10, <2>1 DEF AfterInvestigation
  <2>2. CASE Suspend(t, "comply") /\ UNCHANGED <<kind, result>>
    <3>1. /\ pc[t] = "cast" /\ kind[t] = "investigation" /\ result' = result
          /\ pc'[t] = "comply"
      BY <1>10, <1>a, <2>2 DEF AfterInvestigation, Cast
    <3>2. Path(t)'
      BY <1>d, <1>e, <3>1
    <3>3. QED
      BY <1>10, <1>c, <3>1, <3>2 DEF AfterInvestigation, Early
  <2>3. QED
    BY <1>10, <2>1, <2>2 DEF AfterInvestigation
<1>11. CASE Comply(t)
  <2>1. /\ pc[t] = "comply" /\ pc'[t] = "record" /\ kind'[t] = "compliance"
        /\ result'[t].triage = result[t].triage
        /\ result'[t].rules = result[t].rules
        /\ result'[t].prefilter = result[t].prefilter
    BY <1>11, <1>a DEF Comply, Result
  <2>2. Path(t)'
    BY <1>d, <1>e, <2>1
  <2>3. QED
    BY <1>11, <1>c, <2>1, <2>2 DEF Comply, Early
<1>12. CASE AfterCompliance(t)
  BY <1>9, <1>12 DEF AfterCompliance
<1>13. CASE AfterFusion(t)
  <2>1. /\ pc[t] = "cast" /\ kind[t] = "fusion"
        /\ pc'[t] = "record" /\ kind'[t] = "alert"
        /\ result'[t] = WithAlert(result[t])
    BY <1>13, <1>a DEF AfterFusion, Cast
  <2>2. Path(t)'
    BY <1>d, <1>e, <1>g, <2>1
  <2>3. QED
    BY <1>13, <1>c, <2>1, <2>2 DEF AfterFusion, Early
<1>14. CASE AfterLastEvent(t)
  <2>1. /\ pc[t] = "cast" /\ kind[t] \in {"closed", "alert"} /\ result' = result
        /\ sent' = sent /\ pc'[t] = "record" /\ kind'[t] = "case.completed"
    BY <1>14, <1>a DEF AfterLastEvent, Cast
  <2>2. Path(t)'
    BY <1>b, <2>1 DEF Path, Position, Kept, Settled, Terminal
  <2>3. QED
    BY <1>14, <1>c, <2>1, <2>2 DEF AfterLastEvent, Early
<1>15. QED
  BY <1>1, <1>2, <1>3, <1>4, <1>5, <1>6, <1>7, <1>8, <1>10, <1>11, <1>12, <1>13, <1>14

\* One more receipt, numbered next.
LEMMA NextReceipt ==
  ASSUME NEW n \in Nat
  PROVE  Append(FirstReceipts(n), n + 1) = FirstReceipts(n + 1)
<1>1. FirstReceipts(n) \in Seq(Nat) /\ Len(FirstReceipts(n)) = n
  BY DEF FirstReceipts
<1>2. FirstReceipts(n + 1) \in Seq(Nat) /\ Len(FirstReceipts(n + 1)) = n + 1
  BY DEF FirstReceipts
<1>3. /\ Append(FirstReceipts(n), n + 1) \in Seq(Nat)
      /\ Len(Append(FirstReceipts(n), n + 1)) = n + 1
  BY <1>1
<1>4. ASSUME NEW i \in 1..(n + 1)
      PROVE  Append(FirstReceipts(n), n + 1)[i] = FirstReceipts(n + 1)[i]
  BY <1>1 DEF FirstReceipts
<1>5. QED
  BY <1>2, <1>3, <1>4

\* The short path, receipt by receipt.
LEMMA ShortKinds ==
  /\ ShortTrail[1] = "case.opened"
  /\ ShortTrail[2] = "rules"
  /\ ShortTrail[3] = "prefilter"
  /\ ShortTrail[4] = "closed"
  /\ ShortTrail[5] = "case.completed"
  BY DEF ShortTrail

LEMMA FirstIsSeq ==
  ASSUME NEW n \in 0..5
  PROVE  First(n) \in Seq(Kind) /\ Len(First(n)) = n
<1>1. ASSUME NEW i \in 1..n PROVE ShortTrail[i] \in Kind
  <2>1. i = 1 \/ i = 2 \/ i = 3 \/ i = 4 \/ i = 5
    OBVIOUS
  <2>2. QED
    BY <2>1, ShortKinds DEF Kind
<1>2. QED
  BY <1>1 DEF First

LEMMA TrailGrows ==
  ASSUME NEW n \in 0..4
  PROVE  Append(First(n), ShortTrail[n + 1]) = First(n + 1)
<1>1. /\ First(n) \in Seq(Kind) /\ Len(First(n)) = n
      /\ First(n + 1) \in Seq(Kind) /\ Len(First(n + 1)) = n + 1
  <2>1. n \in 0..5 /\ n + 1 \in 0..5
    OBVIOUS
  <2>2. \A m \in 0..5 : First(m) \in Seq(Kind) /\ Len(First(m)) = m
    BY FirstIsSeq
  <2>3. QED
    BY <2>1, <2>2
<1>2. First(n + 1)[n + 1] \in Kind
  BY <1>1
<1>3. First(n + 1)[n + 1] = ShortTrail[n + 1]
  BY DEF First
<1>4. ASSUME NEW i \in 1..(n + 1)
      PROVE  Append(First(n), ShortTrail[n + 1])[i] = First(n + 1)[i]
  BY <1>1 DEF First
<1>5. /\ Append(First(n), ShortTrail[n + 1]) \in Seq(Kind)
      /\ Len(Append(First(n), ShortTrail[n + 1])) = n + 1
  BY <1>1, <1>2, <1>3
<1>6. QED
  BY <1>1, <1>4, <1>5, SeqEqual, Zenon

LEMMA Steps ==
  /\ Append(First(0), "case.opened") = First(1)
  /\ Append(First(1), "rules") = First(2)
  /\ Append(First(2), "prefilter") = First(3)
  /\ Append(First(3), "closed") = First(4)
  /\ Append(First(4), "case.completed") = First(5)
<1>1. \A n \in 0..4 : Append(First(n), ShortTrail[n + 1]) = First(n + 1)
  BY TrailGrows
<1>2. QED
  BY <1>1, ShortKinds

\* An append, acknowledged or not, leaves the record honest.
Asked(t) ==
  Acknowledged(t, kind[t]) \/ \E status \in AuditStatus : Raised(t, kind[t], status)

LEMMA AppendKeepsLedger ==
  ASSUME TypeInv, NEW t \in Tx, GateInv(t), Asked(t),
         pc[t] \in {"record", "policyAppend"}
  PROVE  /\ sent'[t] = Append(sent[t], kind[t])
         /\ Ledger(t)'
         /\ \/ audit'[t].status = audit[t].status /\ audit'[t].errors = audit[t].errors
            \/ audit'[t].errors > 0
<1>a. Kept(t) /\ Ledger(t)
  BY DEF GateInv, Kept
<1>b. /\ audit \in [Tx -> Audit] /\ audit[t] \in Audit
      /\ sent \in [Tx -> Seq(Kind)] /\ chain \in [Tx -> Seq(Nat \ {0})]
      /\ Len(sent[t]) \in Nat
  BY DEF TypeInv, TypeOK
<1>c. sent'[t] = Append(sent[t], kind[t]) /\ Len(sent'[t]) = Len(sent[t]) + 1
  BY <1>b DEF Asked, Acknowledged, Raised
<1>1. CASE Acknowledged(t, kind[t])
  <2>1. /\ chain'[t] = Append(chain[t], Len(sent[t]) + 1)
        /\ late' = late
    BY <1>1, <1>b DEF Acknowledged
  <2>2. /\ audit'[t].entries = Append(audit[t].entries, Len(sent[t]) + 1)
        /\ audit'[t].errors = audit[t].errors
        /\ audit'[t].status = audit[t].status
    BY <1>1, <1>b DEF Acknowledged, Audit
  <2>3. audit[t].errors = 0 => chain'[t] = FirstReceipts(Len(sent'[t]))
    BY <1>a, <1>b, <1>c, <2>1, NextReceipt DEF Ledger
  <2>4. Ledger(t)'
    BY <1>a, <2>1, <2>2, <2>3 DEF Ledger
  <2>5. QED
    BY <1>c, <2>2, <2>4
<1>2. CASE \E status \in AuditStatus : Raised(t, kind[t], status)
  <2>1. audit'[t].errors = audit[t].errors + 1
    BY <1>2, <1>b DEF Raised, Audit
  <2>2. audit'[t].errors > 0
    BY <1>b, <2>1 DEF Audit
  <2>3. Ledger(t)'
    BY <2>2 DEF Ledger
  <2>4. QED
    BY <1>c, <2>1, <2>2, <2>3
<1>3. QED
  BY <1>1, <1>2 DEF Asked

LEMMA RecordStep ==
  ASSUME TypeInv, NEW t \in Tx, GateInv(t), Record(t)
  PROVE  GateInv(t)'
<1>a. /\ pc \in [Tx -> Pc] /\ audit \in [Tx -> Audit] /\ audit[t] \in Audit
  BY DEF TypeInv, TypeOK
<1>1. /\ pc[t] = "record" /\ pc'[t] = AfterReceipt(kind[t])
      /\ UNCHANGED <<kind, result, payment, saved>>
  BY <1>a DEF Record, Suspend
<1>2. AfterReceipt(kind[t]) \in {"cast", "score", "verify"}
  BY DEF AfterReceipt
<1>3. /\ payment[t].policy = "none" /\ payment[t].action = "none"
      /\ ~payment[t].executed /\ t \notin saved /\ Kept(t) /\ Kept(t)'
  BY <1>1, <1>2 DEF GateInv, Where, Decision, Settled, Terminal, Kept
<1>4. /\ sent'[t] = Append(sent[t], kind[t])
      /\ Ledger(t)'
      /\ audit'[t].status = audit[t].status
  <2>1. Asked(t)
    BY <1>a DEF Record, Asked, Audit
  <2>2. audit'[t].status = audit[t].status
    BY <1>a DEF Record, Acknowledged, Raised, Audit
  <2>3. QED
    BY <1>1, <2>1, <2>2, AppendKeepsLedger
<1>5. Where(t)' /\ Forgotten(t)' /\ Judged(t)' /\ Decision(t)'
  BY <1>1, <1>2, <1>3 DEF Where, Forgotten, Judged, Decision
<1>6. Honest(t)'
  BY <1>1, <1>4 DEF GateInv, Honest, Settled, Terminal
<1>7. Path(t)'
  <2>1. Path(t)
    BY DEF GateInv
  <2>2. result[t].triage = "none" => Position(t)'
    BY <1>1, <1>3, <1>4, <2>1, Steps
    DEF Path, Position, AfterReceipt, Settled, Terminal
  <2>3. /\ pc'[t] = "cast" => kind[t] \notin {"case.opened", "case.completed"}
        /\ pc'[t] = "score" => kind[t] = "case.opened"
    BY <1>1 DEF AfterReceipt
  <2>4. QED
    BY <1>1, <1>2, <1>3, <2>1, <2>2, <2>3 DEF Path
<1>8. QED
  BY <1>4, <1>5, <1>6, <1>7 DEF GateInv

\* What the policy concludes, whatever the audit status it is given.
LEMMA PolicyIsSound ==
  ASSUME NEW r \in Result, NEW status
  PROVE  /\ PolicyFor(r, status) = "allow" => NothingToEscalate(r)
         /\ (r.case.hit \/ RiskOf(r) = "critical") => PolicyFor(r, status) = "block"
<1>1. r.rules \in Int
  <2>1. r.rules \in RuleScores \cup {NoScore}
    BY DEF Result
  <2>2. \A n \in RuleScores : n \in Int
    BY PipelineAssumption
  <2>3. NoScore \in Int
    BY DEF NoScore
  <2>4. QED
    BY <2>1, <2>2, <2>3
<1>2. PolicyFor(r, status) = "allow" => ~SignalRemains(r)
  BY DEF PolicyFor
<1>3. PolicyFor(r, status) = "allow" => NothingToEscalate(r)
  BY <1>1, <1>2 DEF SignalRemains, NothingToEscalate, EscalationThreshold
<1>4. QED
  BY <1>3 DEF PolicyFor

LEMMA VerifyStep ==
  ASSUME TypeInv, NEW t \in Tx, GateInv(t), Verify(t)
  PROVE  GateInv(t)'
<1>a. /\ pc \in [Tx -> Pc] /\ kind \in [Tx -> Kind] /\ result[t] \in Result
      /\ audit \in [Tx -> Audit] /\ audit[t] \in Audit
      /\ payment \in [Tx -> Payment] /\ payment[t] \in Payment
  BY DEF TypeInv, TypeOK
<1>1. PICK status : AskPolicy(t, status)
  BY DEF Verify
<1> DEFINE policy == PolicyFor(result[t], status)
<1>2. /\ pc[t] = "verify" /\ pc'[t] = "policyAppend" /\ kind'[t] = policy
      /\ UNCHANGED <<result, saved, chain, late, sent>>
  BY <1>1, <1>a DEF Verify, AskPolicy, Suspend
<1>3. /\ payment'[t].policy = policy /\ payment'[t].action = payment[t].action
      /\ payment'[t].executed = payment[t].executed
  BY <1>1, <1>a DEF AskPolicy, Payment
<1>4. /\ payment[t].action = "none" /\ ~payment[t].executed
      /\ t \notin saved /\ Kept(t) /\ Kept(t)'
  BY <1>2 DEF GateInv, Where, Decision, Settled, Terminal, Kept
<1>5. \/ /\ audit'[t].status = StatusOf(chainValid, audit[t].errors)
         /\ audit'[t].errors = audit[t].errors
         /\ audit'[t].entries = audit[t].entries
      \/ audit'[t].status = "unavailable" /\ audit'[t].errors = audit[t].errors + 1
  BY <1>a DEF Verify, VerificationRaised, Audit
<1>6. Ledger(t)' /\ Honest(t)'
  <2>1. audit[t].errors \in Nat
    BY <1>a DEF Audit
  <2>2. audit'[t].errors = 0 =>
          audit[t].errors = 0 /\ audit'[t].entries = audit[t].entries
    BY <1>5, <2>1
  <2>3. Ledger(t)'
    BY <1>2, <1>4, <2>2 DEF GateInv, Ledger
  <2>4. Honest(t)'
    BY <1>2, <1>5 DEF Honest, StatusOf
  <2>5. QED
    BY <2>3, <2>4
<1>7. Where(t)' /\ Forgotten(t)'
  BY <1>2, <1>3, <1>4 DEF Where, Forgotten
<1>8. Judged(t)' /\ Decision(t)'
  BY <1>a, <1>2, <1>3, <1>4, PolicyIsSound DEF Judged, Decision
<1>9. Path(t)'
  BY <1>2, <1>4 DEF GateInv, Path, Position, Settled, Terminal
<1>10. QED
  BY <1>6, <1>7, <1>8, <1>9 DEF GateInv

LEMMA RecordPolicyStep ==
  ASSUME TypeInv, NEW t \in Tx, GateInv(t), RecordPolicy(t)
  PROVE  GateInv(t)'
<1>a. /\ pc \in [Tx -> Pc] /\ audit \in [Tx -> Audit] /\ audit[t] \in Audit
      /\ payment \in [Tx -> Payment] /\ payment[t] \in Payment
  BY DEF TypeInv, TypeOK
<1>1. /\ pc[t] = "policyAppend" /\ UNCHANGED <<kind, result, saved>>
  BY DEF RecordPolicy
<1>2. Asked(t)
  <2>1. StatusAfterFailure(audit[t].status) \in AuditStatus
    BY DEF StatusAfterFailure, AuditStatus
  <2>2. QED
    BY <2>1 DEF RecordPolicy, Asked
<1>3. /\ sent'[t] = Append(sent[t], kind[t])
      /\ Ledger(t)'
      /\ \/ audit'[t].status = audit[t].status /\ audit'[t].errors = audit[t].errors
         \/ audit'[t].errors > 0
  BY <1>1, <1>2, AppendKeepsLedger
<1>4. /\ kind[t] = payment[t].policy /\ t \notin saved /\ Kept(t)
      /\ payment[t].action = "none" /\ ~payment[t].executed
  BY <1>1 DEF GateInv, Where, Decision, Settled, Terminal, Kept
<1>5. CASE /\ Acknowledged(t, kind[t])
           /\ Suspend(t, "policyVerify")
           /\ UNCHANGED payment
  <2>1. /\ pc'[t] = "policyVerify" /\ payment' = payment
        /\ audit'[t].status = audit[t].status /\ audit'[t].errors = audit[t].errors
    BY <1>5, <1>a DEF Suspend, Acknowledged, Audit
  <2>2. /\ Where(t)' /\ Forgotten(t)' /\ Honest(t)' /\ Judged(t)' /\ Decision(t)'
    BY <1>1, <1>4, <2>1
    DEF GateInv, Where, Forgotten, Honest, Judged, Decision, Kept
  <2>3. Path(t)'
    BY <1>1, <1>3, <1>4, <2>1 DEF GateInv, Path, Position, Settled, Terminal
  <2>4. QED
    BY <1>3, <2>2, <2>3 DEF GateInv
<1>6. CASE /\ Raised(t, kind[t], StatusAfterFailure(audit[t].status))
           /\ Settle(t, FALSE)
  <2>1. /\ pc'[t] = "save" /\ payment'[t].policy = payment[t].policy
        /\ ~payment'[t].executed
        /\ \/ payment'[t].action = payment[t].policy
           \/ payment'[t].action = "hold" /\ payment[t].policy = "allow"
        /\ audit'[t].status = StatusAfterFailure(audit[t].status)
    BY <1>6, <1>a DEF Suspend, Settle, Raised, Audit, Payment
  <2>2. /\ Where(t)' /\ Forgotten(t)' /\ Honest(t)' /\ Judged(t)' /\ Decision(t)'
    BY <1>1, <1>4, <2>1
    DEF GateInv, Where, Forgotten, Honest, Judged, Decision, Kept,
        StatusAfterFailure, Settled, Terminal
  <2>3. Path(t)'
    BY <1>1, <1>3, <1>4, <2>1 DEF GateInv, Path, Position, Settled, Terminal
  <2>4. QED
    BY <1>3, <2>2, <2>3 DEF GateInv
<1>7. QED
  BY <1>5, <1>6 DEF RecordPolicy

LEMMA VerifyPolicyStep ==
  ASSUME TypeInv, NEW t \in Tx, GateInv(t), VerifyPolicy(t)
  PROVE  GateInv(t)'
<1>a. /\ pc \in [Tx -> Pc] /\ audit \in [Tx -> Audit] /\ audit[t] \in Audit
      /\ payment \in [Tx -> Payment] /\ payment[t] \in Payment
  BY DEF TypeInv, TypeOK
<1>1. PICK verified \in BOOLEAN :
        /\ Settle(t, verified)
        /\ \/ /\ audit' = [audit EXCEPT ![t].status = StatusOf(chainValid, audit[t].errors)]
              /\ verified => audit[t].errors = 0
           \/ /\ VerificationRaised(t, StatusAfterFailure(audit[t].status))
              /\ ~verified
  BY DEF VerifyPolicy
<1>2. /\ pc[t] = "policyVerify" /\ pc'[t] = "save"
      /\ UNCHANGED <<kind, result, saved, chain, late, sent>>
  BY <1>1, <1>a DEF VerifyPolicy, Settle, Suspend
<1>3. \/ /\ audit'[t].status = StatusOf(chainValid, audit[t].errors)
         /\ audit'[t].errors = audit[t].errors
         /\ audit'[t].entries = audit[t].entries
         /\ verified => audit[t].errors = 0
      \/ /\ audit'[t].status = StatusAfterFailure(audit[t].status)
         /\ audit'[t].errors = audit[t].errors + 1
         /\ ~verified
  BY <1>1, <1>a DEF VerificationRaised, Audit
<1>4. /\ payment'[t].policy = payment[t].policy
      /\ payment'[t].executed = (payment[t].policy = "allow" /\ verified)
      /\ payment'[t].action =
           IF payment[t].policy = "allow" /\ ~verified THEN "hold" ELSE payment[t].policy
  BY <1>1, <1>a DEF Settle, Payment
<1>5. t \notin saved /\ Kept(t) /\ Kept(t)'
  BY <1>2 DEF GateInv, Where, Settled, Terminal, Kept
<1>6. Ledger(t)' /\ Honest(t)'
  <2>1. audit[t].errors \in Nat
    BY <1>a DEF Audit
  <2>2. audit'[t].errors = 0 =>
          audit[t].errors = 0 /\ audit'[t].entries = audit[t].entries
    BY <1>3, <2>1
  <2>3. Ledger(t)'
    BY <1>2, <1>5, <2>2 DEF GateInv, Ledger
  <2>4. Honest(t)'
    BY <1>2, <1>3 DEF Honest, StatusOf, StatusAfterFailure, Settled
  <2>5. QED
    BY <2>3, <2>4
<1>7. Where(t)' /\ Forgotten(t)' /\ Judged(t)'
  BY <1>2, <1>4, <1>5 DEF GateInv, Where, Forgotten, Judged, Settled
<1>8. Decision(t)'
  <2>1. payment'[t].executed => payment'[t].action = "allow" /\ audit'[t].errors = 0
    BY <1>3, <1>4
  <2>2. QED
    BY <1>4, <2>1 DEF Decision
<1>9. Path(t)'
  BY <1>2, <1>4, <1>5 DEF GateInv, Path, Position, Settled, Terminal
<1>10. QED
  BY <1>6, <1>7, <1>8, <1>9 DEF GateInv

\* The row is in the table, and the answer is sent.
LEMMA SaveStep ==
  ASSUME TypeInv, NEW t \in Tx, GateInv(t), Save(t) \/ Notify(t)
  PROVE  GateInv(t)'
<1>1. /\ UNCHANGED <<kind, result, audit, payment, chain, late, sent>>
      /\ \/ pc[t] = "save" /\ pc'[t] = "notify"
         \/ pc[t] = "notify" /\ pc'[t] = "replied" /\ saved' = saved
  BY DEF Save, Notify, Suspend, auditVars, TypeInv, TypeOK
<1>2. Kept(t) /\ Kept(t)'
  BY <1>1 DEF Kept
<1>3. Where(t)' /\ Forgotten(t)' /\ Ledger(t)' /\ Honest(t)' /\ Judged(t)' /\ Decision(t)'
  BY <1>1, <1>2
  DEF GateInv, Where, Forgotten, Ledger, Honest, Judged, Decision, Settled, Terminal
<1>4. Path(t)'
  BY <1>1, <1>2 DEF GateInv, Path, Position, Settled, Terminal
<1>5. QED
  BY <1>3, <1>4 DEF GateInv

\* A transaction that ends early either keeps everything, when its row is in
\* the table, or loses all that the coroutine knew.
Ends(t) ==
  /\ pc'[t] \in {"failed", "lost"}
  /\ UNCHANGED saved
  /\ \/ /\ t \in saved
        /\ pc[t] = "notify"
        /\ result'[t] = result[t] /\ audit'[t] = audit[t] /\ payment'[t] = payment[t]
        /\ chain'[t] = chain[t] /\ sent'[t] = sent[t]
        /\ (\A l \in late : l[1] # t) => (\A l \in late' : l[1] # t)
     \/ /\ t \notin saved
        /\ result'[t] = NewResult /\ audit'[t] = NewAudit /\ payment'[t] = NewPayment

LEMMA EndStep ==
  ASSUME NEW t \in Tx, GateInv(t), Ends(t)
  PROVE  GateInv(t)'
<1>1. CASE t \in saved
  <2>1. /\ pc[t] = "notify" /\ result'[t] = result[t]
        /\ audit'[t] = audit[t] /\ payment'[t] = payment[t]
        /\ chain'[t] = chain[t] /\ sent'[t] = sent[t]
        /\ (\A l \in late : l[1] # t) => (\A l \in late' : l[1] # t)
        /\ Kept(t) /\ Kept(t)' /\ saved' = saved
    BY <1>1 DEF Ends, Kept
  <2>2. /\ Where(t)' /\ Forgotten(t)' /\ Honest(t)' /\ Judged(t)' /\ Decision(t)'
    BY <2>1 DEF Ends, GateInv, Where, Forgotten, Honest, Judged, Decision,
                Settled, Terminal
  <2>3. Ledger(t)'
    BY <2>1 DEF GateInv, Ledger
  <2>4. Path(t)'
    BY <2>1 DEF Ends, GateInv, Path, Position, Settled, Terminal
  <2>5. QED
    BY <2>2, <2>3, <2>4 DEF GateInv
<1>2. CASE t \notin saved
  <2>1. /\ result'[t] = NewResult /\ audit'[t] = NewAudit /\ payment'[t] = NewPayment
        /\ t \notin saved' /\ ~Kept(t)'
    BY <1>2 DEF Ends, Kept
  <2>2. QED
    BY <2>1
    DEF Ends, GateInv, Where, Forgotten, Ledger, Honest, Path, Judged, Decision,
        NewResult, NewAudit, NewPayment
<1>3. QED
  BY <1>1, <1>2

LEMMA FailStep ==
  ASSUME TypeInv, NEW t \in Tx, GateInv(t), Fail(t)
  PROVE  GateInv(t)'
<1>1. t \in saved => pc[t] = "notify"
  BY DEF Fail, CanRaise, GateInv, Where, Terminal
<1>2. Ends(t)
  BY <1>1 DEF Fail, Ends, Forget, Unsaved, Suspend, auditVars, TypeInv, TypeOK
<1>3. QED
  BY <1>2, EndStep

LEMMA OwnStep ==
  ASSUME TypeInv, NEW t \in Tx, GateInv(t), Start(t) \/ Advance(t) \/ Fail(t)
  PROVE  GateInv(t)'
  BY EarlySteps, RecordStep, VerifyStep, RecordPolicyStep, VerifyPolicyStep,
     SaveStep, FailStep DEF Advance

\* The surroundings of the pipeline.
LEMMA EnvironmentStep ==
  ASSUME TypeInv, NEW t \in Tx, GateInv(t), Environment
  PROVE  GateInv(t)'
<1>1. CASE Crash
  <2>1. CASE Running(t)
    <3>1. t \in saved => pc[t] = "notify"
      BY <2>1 DEF Running, GateInv, Where
    <3>2. PICK T \in SUBSET {u \in Tx : Awaiting(u)} :
            late' = late \cup {<<u, Len(sent[u]) + 1>> : u \in T}
      BY <1>1 DEF Crash
    <3>3. pc[t] = "notify" /\ (\A l \in late : l[1] # t) => \A l \in late' : l[1] # t
      BY <3>2 DEF Awaiting
    <3>4. pc[t] = "notify" => sent'[t] = sent[t]
      BY <1>1 DEF Crash, Awaiting
    <3>5. Ends(t)
      BY <1>1, <2>1, <3>1, <3>3, <3>4 DEF Crash, Ends, Forget, Unsaved
    <3>6. QED
      BY <3>5, EndStep
  <2>2. CASE ~Running(t)
    <3>1. ~Awaiting(t)
      BY <2>2 DEF Running, Awaiting, Terminal
    <3>2. PICK T \in SUBSET {u \in Tx : Awaiting(u)} :
            late' = late \cup {<<u, Len(sent[u]) + 1>> : u \in T}
      BY <1>1 DEF Crash
    <3>3. Untouched(t)
      BY <1>1, <2>2, <3>1, <3>2 DEF Crash, Untouched, Forget, Unsaved
    <3>4. QED
      BY <3>3, Frame
  <2>3. QED
    BY <2>1, <2>2
<1>2. CASE AppendLate
  <2>1. PICK l \in late : /\ chain' = [chain EXCEPT ![l[1]] = Append(@, l[2])]
                          /\ late' = late \ {l}
                          /\ UNCHANGED <<pipelineVars, sent>>
    BY <1>2 DEF AppendLate
  <2>2. CASE l[1] = t
    \* An append can only be late for a case with an error, or one forgotten.
    <3>1. ~(Kept(t) /\ audit[t].errors = 0)
      BY <2>2 DEF GateInv, Ledger
    <3>2. Ledger(t)'
      BY <2>1, <3>1 DEF Ledger, Kept, pipelineVars
    <3>3. /\ Where(t)' /\ Forgotten(t)' /\ Honest(t)' /\ Path(t)'
          /\ Judged(t)' /\ Decision(t)'
      BY <2>1 DEF GateInv, Where, Forgotten, Honest, Path, Position, Judged,
                  Decision, Kept, pipelineVars
    <3>4. QED
      BY <3>2, <3>3 DEF GateInv
  <2>3. CASE l[1] # t
    <3>1. Untouched(t)
      BY <2>1, <2>3 DEF Untouched, pipelineVars, TypeInv, TypeOK
    <3>2. QED
      BY <3>1, Frame
  <2>4. QED
    BY <2>2, <2>3
<1>3. CASE ChainShifts \/ \E a \in Account : SecurityEvent(a) \/ EventExpires(a)
  <2>1. Untouched(t)
    BY <1>3 DEF ChainShifts, SecurityEvent, EventExpires, Untouched,
                pipelineVars, auditVars
  <2>2. QED
    BY <2>1, Frame
<1>4. QED
  BY <1>1, <1>2, <1>3 DEF Environment

LEMMA GateInvariance == Spec => []IInv
<1>1. Init => IInv
  BY InitTypes, InitGate DEF IInv
<1>2. IInv /\ [Next]_vars => IInv'
  <2> SUFFICES ASSUME IInv, [Next]_vars PROVE IInv'
    OBVIOUS
  <2>1. TypeInv'
    BY AdvanceTypes, EnvironmentTypes, StutterTypes DEF IInv, Next
  <2>2. ASSUME NEW u \in Tx PROVE GateInv(u)'
    <3>1. TypeInv /\ GateInv(u)
      BY DEF IInv
    <3>2. CASE \E t \in Tx : Start(t) \/ Advance(t) \/ Fail(t)
      <4>1. PICK t \in Tx : Start(t) \/ Advance(t) \/ Fail(t)
        BY <3>2
      <4>2. CASE t = u
        BY <3>1, <4>1, <4>2, OwnStep
      <4>3. CASE t # u
        <5>1. Untouched(u)
          BY <3>1, <4>1, <4>3, OthersUntouched
        <5>2. QED
          BY <3>1, <5>1, Frame
      <4>4. QED
        BY <4>2, <4>3
    <3>3. CASE Environment
      BY <3>1, <3>3, EnvironmentStep
    <3>4. CASE UNCHANGED vars
      <4>1. Untouched(u)
        BY <3>4 DEF vars, pipelineVars, auditVars, Untouched
      <4>2. QED
        BY <3>1, <4>1, Frame
    <3>5. QED
      BY <3>2, <3>3, <3>4 DEF Next
  <2>3. QED
    BY <2>1, <2>2 DEF IInv
<1>3. QED
  BY <1>1, <1>2, PTL DEF Spec

-----------------------------------------------------------------------------
(* What the invariant says.                                                 *)

\* A case reported verified has every receipt it asked for on the chain, in
\* order, and knows them all.
THEOREM Completeness == Spec => []VerifiedMeansComplete
<1>1. IInv => VerifiedMeansComplete
  <2> SUFFICES ASSUME IInv, NEW t \in Tx, audit[t].status = "verified"
               PROVE  /\ chain[t] = FirstReceipts(Len(sent[t]))
                      /\ audit[t].entries = chain[t]
    BY DEF VerifiedMeansComplete
  <2>1. GateInv(t)
    BY DEF IInv
  <2>2. Kept(t)
    BY <2>1 DEF GateInv, Forgotten, NewAudit
  <2>3. QED
    BY <2>1, <2>2 DEF GateInv, Honest, Ledger
<1>2. QED
  BY <1>1, GateInvariance, PTL

\* A sequence is told by its front and its last element.
LEMMA AppendIs ==
  ASSUME NEW S, NEW s \in Seq(S), NEW u \in Seq(S), NEW e \in S,
         Len(u) = Len(s) + 1, \A i \in 1..Len(s) : u[i] = s[i], u[Len(s) + 1] = e
  PROVE  Append(s, e) = u
<1>1. Append(s, e) \in Seq(S) /\ Len(Append(s, e)) = Len(s) + 1
  OBVIOUS
<1>2. \A i \in 1..Len(u) : Append(s, e)[i] = u[i]
  OBVIOUS
<1>3. QED
  BY <1>1, <1>2, SeqEqual, Zenon

\* The six receipts of an executed payment.
LEMMA ExecutedTrail ==
  Append(First(5), "allow") =
    <<"case.opened", "rules", "prefilter", "closed", "case.completed", "allow">>
<1> DEFINE six == <<"case.opened", "rules", "prefilter", "closed",
                    "case.completed", "allow">>
           five == First(5)
<1>1. six \in Seq(Kind) /\ Len(six) = 6
  BY DEF Kind, Action
<1>2. five \in Seq(Kind) /\ Len(five) = 5
  BY FirstIsSeq
<1>3. "allow" \in Kind
  BY DEF Kind, Action
<1>4. /\ six[6] = "allow"
      /\ \A i \in 1..5 : six[i] = five[i]
  <2>1. ASSUME NEW i \in 1..5 PROVE six[i] = ShortTrail[i]
    <3>1. i = 1 \/ i = 2 \/ i = 3 \/ i = 4 \/ i = 5
      OBVIOUS
    <3>2. QED
      BY <3>1, ShortKinds
  <2>2. \A i \in 1..5 : five[i] = ShortTrail[i]
    BY DEF First
  <2>3. QED
    BY <2>1, <2>2
<1> HIDE DEF six, five
<1>5. /\ Len(six) = Len(five) + 1 /\ six[Len(five) + 1] = "allow"
      /\ \A i \in 1..Len(five) : six[i] = five[i]
  BY <1>1, <1>2, <1>4
<1>6. Append(five, "allow") = six
  BY <1>1, <1>2, <1>3, <1>5, AppendIs, Zenon
<1>7. QED
  BY <1>6 DEF six, five

\* An executed payment was closed at stage 0 and its record is complete down
\* to the policy receipt.
THEOREM ExecutionNeedsRecord == Spec => []ExecutionIsBacked
<1>1. IInv => ExecutionIsBacked
  <2> SUFFICES ASSUME IInv, NEW t \in Tx, payment[t].executed
               PROVE  /\ payment[t].action = "allow"
                      /\ chain[t] = FirstReceipts(Len(sent[t]))
                      /\ sent[t] = <<"case.opened", "rules", "prefilter", "closed",
                                     "case.completed", "allow">>
    BY DEF ExecutionIsBacked
  <2>1. GateInv(t)
    BY DEF IInv
  <2>2. /\ payment[t].action = "allow" /\ payment[t].policy = "allow"
        /\ audit[t].errors = 0
    BY <2>1 DEF GateInv, Decision
  <2>3. Kept(t) /\ pc[t] \in Settled
    BY <2>1, <2>2 DEF GateInv, Forgotten, NewPayment, Where
  <2>4. chain[t] = FirstReceipts(Len(sent[t]))
    BY <2>1, <2>2, <2>3 DEF GateInv, Ledger
  <2>5. result[t].triage = "none"
    BY <2>1, <2>2 DEF GateInv, Judged, Path
  <2>6. sent[t] = Append(First(5), payment[t].policy)
    BY <2>1, <2>3, <2>5 DEF GateInv, Path, Position, Settled, Terminal
  <2>7. QED
    BY <2>2, <2>4, <2>6, ExecutedTrail
<1>2. QED
  BY <1>1, GateInvariance, PTL

\* No failure of the audit trail turns a block into anything else, nor a hold
\* into an execution.
THEOREM GateOnlyTightens == Spec => []AuditNeverLoosens
<1>1. IInv => AuditNeverLoosens
  <2> SUFFICES ASSUME IInv, NEW t \in Tx, payment[t].action # "none"
               PROVE  /\ (result[t].case.hit \/ RiskOf(result[t]) = "critical")
                           => payment[t].action = "block"
                      /\ payment[t].action # payment[t].policy
                           => (payment[t].policy = "allow" /\ payment[t].action = "hold")
    BY DEF AuditNeverLoosens
  <2>1. Decision(t) /\ Judged(t)
    BY DEF IInv, GateInv
  <2>2. QED
    BY <2>1 DEF Decision, Judged
<1>2. QED
  BY <1>1, GateInvariance, PTL

\* A payment is executed only while Rust finds the chain valid and none of the
\* transaction's own appends is under way.
THEOREM ExecutionSeesValidChain == Spec => ExecutesOnValidChain
<1>1. IInv /\ [Next]_vars =>
        [\A t \in Tx : (payment'[t].executed /\ ~payment[t].executed) =>
                         chainValid /\ \A l \in late : l[1] # t]_vars
  <2> SUFFICES ASSUME IInv, Next, NEW t \in Tx,
                      payment'[t].executed, ~payment[t].executed
               PROVE  chainValid /\ \A l \in late : l[1] # t
    OBVIOUS
  <2>a. TypeInv /\ GateInv(t) /\ payment \in [Tx -> Payment] /\ payment[t] \in Payment
    BY DEF IInv, TypeInv, TypeOK
  <2>1. ~NewPayment.executed
    BY DEF NewPayment
  <2>2. ~Environment
    BY <2>1 DEF Environment, Crash, Forget, AppendLate, ChainShifts, SecurityEvent,
                EventExpires, pipelineVars
  <2>3. PICK u \in Tx : Start(u) \/ Advance(u) \/ Fail(u)
    BY <2>2 DEF Next
  <2>4. u = t
    BY <2>a, <2>3, OthersUntouched DEF Untouched
  <2>5. payment' # payment
    OBVIOUS
  <2>6. ~Fail(t)
    BY <2>1 DEF Fail, Forget
  <2>7. ~Verify(t)
    <3> SUFFICES ASSUME Verify(t) PROVE FALSE
      OBVIOUS
    <3>1. PICK status : AskPolicy(t, status)
      BY DEF Verify
    <3>2. payment'[t].executed = payment[t].executed
      BY <2>a, <3>1 DEF AskPolicy, Payment
    <3>3. QED
      BY <3>2
  <2>8. RecordPolicy(t) \/ VerifyPolicy(t)
    BY <2>3, <2>4, <2>5, <2>6, <2>7
    DEF Start, Advance, Record, Score, AfterRules, AfterPrefilter, Triage, AfterTriage,
        Investigate, AfterTool, AfterInvestigation, Comply, AfterCompliance, AfterFusion,
        AfterLastEvent, Save, Notify
  <2>9. ~Settle(t, FALSE)
    BY <2>a DEF Settle, Payment
  <2>10. Settle(t, chainValid /\ audit[t].errors = 0) /\ pc[t] = "policyVerify"
    BY <2>5, <2>8, <2>9 DEF RecordPolicy, VerifyPolicy
  <2>11. chainValid /\ audit[t].errors = 0
    BY <2>a, <2>10 DEF Settle, Payment
  <2>12. QED
    BY <2>a, <2>10, <2>11 DEF GateInv, Ledger, Kept
<1>2. QED
  BY <1>1, GateInvariance, PTL DEF Spec, ExecutesOnValidChain

-----------------------------------------------------------------------------
(* The pipeline implements the payment gate.                                *)

\* Where the receipts of a transaction are: each asked for once, on the chain or
\* late or nowhere; the policy's is the last one asked for, and on the chain when
\* it was acknowledged.
Traced(t) ==
  /\ \A i \in 1..Len(chain[t]) : chain[t][i] \in 1..Len(sent[t])
  /\ \A l \in late : l[1] = t =>
       /\ l[2] \in 1..Len(sent[t])
       /\ \A i \in 1..Len(chain[t]) : chain[t][i] # l[2]
  /\ \A i \in 1..Len(sent[t]) : sent[t][i] \in Action =>
       /\ i = Len(sent[t])
       /\ pc[t] \in {"policyVerify"} \cup Settled
       /\ Kept(t) => sent[t][i] = payment[t].policy
  /\ pc[t] \in {"record", "cast"} => kind[t] \notin Action
  /\ pc[t] = "policyAppend" => kind[t] \in Action
  /\ pc[t] = "policyVerify" =>
       /\ Len(sent[t]) > 0
       /\ sent[t][Len(sent[t])] = payment[t].policy
       /\ payment[t].policy \in Action
       /\ \E i \in 1..Len(chain[t]) : chain[t][i] = Len(sent[t])

GateRefInv == IInv /\ \A t \in Tx : Traced(t)

\* What the definition of PolicyReceiptIn comes to when only the last receipt asked
\* for can be the policy's.
LEMMA ReceiptFound ==
  ASSUME NEW s \in Seq(Kind), NEW c \in Seq(Nat \ {0}),
         \A i \in 1..Len(c) : c[i] \in 1..Len(s),
         \A i \in 1..Len(s) : s[i] \in Action => i = Len(s)
  PROVE  PolicyReceiptIn(s, c) =
           IF Len(s) > 0 /\ s[Len(s)] \in Action /\ \E i \in 1..Len(c) : c[i] = Len(s)
           THEN s[Len(s)] ELSE "none"
<1> DEFINE at == {i \in 1..Len(c) : s[c[i]] \in Action}
<1>1. \A i \in at : c[i] = Len(s)
  OBVIOUS
<1>2. CASE at = {}
  <2>1. ~ (Len(s) > 0 /\ s[Len(s)] \in Action /\ \E i \in 1..Len(c) : c[i] = Len(s))
    BY <1>2
  <2>2. QED
    BY <1>2, <2>1 DEF PolicyReceiptIn
<1>3. CASE at # {}
  <2> DEFINE first == CHOOSE i \in at : TRUE
  <2>1. first \in at
    BY <1>3
  <2>2. PolicyReceiptIn(s, c) = s[c[first]]
    BY <1>3 DEF PolicyReceiptIn
  <2>3. c[first] = Len(s) /\ s[Len(s)] \in Action /\ Len(s) > 0
    BY <1>1, <2>1
  <2>4. QED
    BY <2>1, <2>2, <2>3
<1>4. QED
  BY <1>2, <1>3

LEMMA NoPolicyYet ==
  ASSUME NEW s \in Seq(Kind), NEW c \in Seq(Nat \ {0}),
         \A i \in 1..Len(c) : c[i] \in 1..Len(s),
         \A i \in 1..Len(s) : s[i] \notin Action
  PROVE  PolicyReceiptIn(s, c) = "none"
  BY DEF PolicyReceiptIn

\* A receipt that is asked for and does not reach the chain says nothing.
LEMMA AskedInVain ==
  ASSUME NEW s \in Seq(Kind), NEW c \in Seq(Nat \ {0}), NEW k \in Kind,
         \A i \in 1..Len(c) : c[i] \in 1..Len(s)
  PROVE  PolicyReceiptIn(Append(s, k), c) = PolicyReceiptIn(s, c)
<1> DEFINE longer == Append(s, k)
           at(q) == {i \in 1..Len(c) : q[c[i]] \in Action}
           pick(S) == CHOOSE i \in S : TRUE
<1>1. \A i \in 1..Len(c) : longer[c[i]] = s[c[i]]
  OBVIOUS
<1>2. at(longer) = at(s)
  BY <1>1
<1>3. \A q : PolicyReceiptIn(q, c) = IF at(q) = {} THEN "none" ELSE q[c[pick(at(q))]]
  BY DEF PolicyReceiptIn
<1>4. at(s) # {} => pick(at(s)) \in 1..Len(c)
  OBVIOUS
<1> HIDE DEF longer, at, pick
<1>5. PolicyReceiptIn(longer, c) = IF at(s) = {} THEN "none" ELSE longer[c[pick(at(s))]]
  BY <1>2, <1>3
<1>6. PolicyReceiptIn(longer, c) = PolicyReceiptIn(s, c)
  BY <1>1, <1>3, <1>4, <1>5
<1>7. QED
  BY <1>6 DEF longer

LEMMA InitTraced == Init => \A t \in Tx : Traced(t)
  BY DEF Init, Traced, Kind, Action

\* What a transaction shows to the gate.
Shown(t) == <<PolicyReceipt(t), Outcome(t)>>

LEMMA TracedFrame ==
  ASSUME NEW t \in Tx, Traced(t), Untouched(t)
  PROVE  Traced(t)' /\ Shown(t)' = Shown(t)
<1>1. Kept(t)' <=> Kept(t)
  BY DEF Untouched, Kept
<1>2. Traced(t)'
  BY <1>1 DEF Untouched, Traced
<1>3. QED
  BY <1>2 DEF Untouched, Shown, PolicyReceipt, Outcome

\* The steps up to the last event of a case ask for no receipt themselves.
EarlyAction(t) ==
  \/ Start(t) \/ Score(t) \/ AfterRules(t) \/ AfterPrefilter(t)
  \/ Triage(t) \/ AfterTriage(t) \/ Investigate(t) \/ AfterTool(t)
  \/ AfterInvestigation(t) \/ Comply(t) \/ AfterCompliance(t)
  \/ AfterFusion(t) \/ AfterLastEvent(t)

LEMMA EarlyMoves ==
  ASSUME TypeInv, NEW t \in Tx, EarlyAction(t)
  PROVE  /\ pc[t] \in Early
         /\ \/ pc'[t] = "record" /\ kind'[t] \notin Action
            \/ pc'[t] \in {"triage", "investigate", "comply"}
         /\ UNCHANGED <<audit, payment, saved, chain, late, sent>>
<1> USE DEF Emit, Suspend, auditVars, Early, Action, Cast
<1>a. pc \in [Tx -> Pc] /\ kind \in [Tx -> Kind]
  BY DEF TypeInv, TypeOK
<1>1. CASE Start(t) \/ Score(t) \/ AfterRules(t) \/ AfterPrefilter(t)
  BY <1>1, <1>a DEF Start, Score, AfterRules, AfterPrefilter
<1>2. CASE Triage(t) \/ AfterTriage(t) \/ Comply(t) \/ AfterFusion(t) \/ AfterLastEvent(t)
  BY <1>2, <1>a DEF Triage, AfterTriage, Comply, AfterFusion, AfterLastEvent
<1>3. \A n : NextFinding(n) \notin Action
  BY DEF NextFinding
<1>4. CASE Investigate(t)
  BY <1>4, <1>3, <1>a DEF Investigate
<1>5. CASE AfterTool(t)
  BY <1>5, <1>3, <1>a DEF AfterTool
<1>6. CASE AfterInvestigation(t) \/ AfterCompliance(t)
  BY <1>6, <1>a DEF AfterInvestigation, AfterCompliance, Fuse
<1>7. QED
  BY <1>1, <1>2, <1>4, <1>5, <1>6 DEF EarlyAction

\* While no policy receipt was asked for there is none, whatever is asked for.
Unasked == Early \cup {"verify", "policyAppend"}

LEMMA UnaskedShows ==
  ASSUME TypeInv, NEW t \in Tx, GateInv(t), Traced(t), pc[t] \in Unasked
  PROVE  Shown(t) = <<"none", "none">> /\ \A i \in 1..Len(sent[t]) : sent[t][i] \notin Action
<1>1. \A i \in 1..Len(sent[t]) : sent[t][i] \notin Action
  BY DEF Traced, Unasked, Early, Settled, Terminal
<1>2. sent[t] \in Seq(Kind) /\ chain[t] \in Seq(Nat \ {0})
  BY DEF TypeInv, TypeOK
<1>3. PolicyReceipt(t) = "none"
  BY <1>1, <1>2, NoPolicyYet DEF Traced, PolicyReceipt
<1>4. Outcome(t) = "none"
  BY DEF GateInv, Where, Unasked, Early, Settled, Terminal, Outcome
<1>5. QED
  BY <1>1, <1>3, <1>4 DEF Shown

LEMMA EarlyTraced ==
  ASSUME TypeInv, NEW t \in Tx, GateInv(t), Traced(t), GateInv(t)', EarlyAction(t)
  PROVE  Traced(t)' /\ Shown(t)' = Shown(t)
<1>1. /\ pc[t] \in Early
      /\ \/ pc'[t] = "record" /\ kind'[t] \notin Action
         \/ pc'[t] \in {"triage", "investigate", "comply"}
      /\ UNCHANGED <<payment, chain, late, sent>>
  BY EarlyMoves
<1>2. \A i \in 1..Len(sent[t]) : sent[t][i] \notin Action
  BY <1>1, UnaskedShows DEF Unasked
<1>3. Traced(t)'
  BY <1>1, <1>2 DEF Traced
<1>4. QED
  BY <1>1, <1>3 DEF Shown, PolicyReceipt, Outcome, Early

\* The append of a receipt, on the chain or not.
LEMMA AskedTraced ==
  ASSUME TypeInv, NEW t \in Tx, Traced(t), Asked(t),
         \A i \in 1..Len(sent[t]) : sent[t][i] \notin Action
  PROVE  /\ sent'[t] = Append(sent[t], kind[t]) /\ Len(sent'[t]) = Len(sent[t]) + 1
         /\ sent'[t] \in Seq(Kind) /\ chain'[t] \in Seq(Nat \ {0})
         /\ \A i \in 1..Len(chain'[t]) : chain'[t][i] \in 1..Len(sent'[t])
         /\ \A l \in late' : l[1] = t =>
              /\ l[2] \in 1..Len(sent'[t])
              /\ \A i \in 1..Len(chain'[t]) : chain'[t][i] # l[2]
         /\ \A i \in 1..Len(sent'[t]) : sent'[t][i] \in Action =>
              i = Len(sent'[t]) /\ sent'[t][i] = kind[t]
         /\ Acknowledged(t, kind[t]) =>
              \E i \in 1..Len(chain'[t]) : chain'[t][i] = Len(sent'[t])
         /\ ~Acknowledged(t, kind[t]) => chain'[t] = chain[t]
<1>a. /\ sent \in [Tx -> Seq(Kind)] /\ chain \in [Tx -> Seq(Nat \ {0})]
      /\ sent[t] \in Seq(Kind) /\ chain[t] \in Seq(Nat \ {0}) /\ kind[t] \in Kind
      /\ late \subseteq Tx \X (Nat \ {0})
  BY DEF TypeInv, TypeOK
<1> DEFINE n == Len(sent[t])
<1>b. n \in Nat /\ n + 1 \in Nat \ {0}
  BY <1>a
<1>1. sent'[t] = Append(sent[t], kind[t])
  BY <1>a DEF Asked, Acknowledged, Raised
<1>2. /\ Len(sent'[t]) = n + 1 /\ sent'[t] \in Seq(Kind)
      /\ \A i \in 1..n : sent'[t][i] = sent[t][i]
      /\ sent'[t][n + 1] = kind[t]
  BY <1>a, <1>1
<1>3. \A i \in 1..Len(sent'[t]) : sent'[t][i] \in Action =>
              i = Len(sent'[t]) /\ sent'[t][i] = kind[t]
  <2>1. \A i \in 1..(n + 1) : i \in 1..n \/ i = n + 1
    BY <1>b
  <2>2. QED
    BY <1>2, <2>1
<1>4. CASE Acknowledged(t, kind[t])
  <2>1. chain'[t] = Append(chain[t], n + 1) /\ late' = late
    BY <1>a, <1>4 DEF Acknowledged
  <2>2. /\ chain'[t] \in Seq(Nat \ {0}) /\ Len(chain'[t]) = Len(chain[t]) + 1
        /\ \A i \in 1..Len(chain[t]) : chain'[t][i] = chain[t][i]
        /\ chain'[t][Len(chain[t]) + 1] = n + 1
    BY <1>a, <1>b, <2>1
  <2>3. \A i \in 1..Len(chain'[t]) : i \in 1..Len(chain[t]) \/ i = Len(chain[t]) + 1
    BY <1>a, <2>2
  <2>4. \A i \in 1..Len(chain'[t]) : chain'[t][i] \in 1..Len(sent'[t])
    <3>1. \A i \in 1..Len(chain[t]) : chain'[t][i] \in 1..n
      BY <2>2 DEF Traced
    <3>2. \A m \in 1..n : m \in 1..(n + 1)
      BY <1>b
    <3>3. QED
      BY <1>b, <1>2, <2>2, <2>3, <3>1, <3>2, SMTT(30)
  <2>5. ASSUME NEW l \in late', l[1] = t
        PROVE  /\ l[2] \in 1..Len(sent'[t])
               /\ \A i \in 1..Len(chain'[t]) : chain'[t][i] # l[2]
    <3>0. l \in late
      BY <2>1, <2>5
    <3>a. l[2] \in 1..n /\ \A i \in 1..Len(chain[t]) : chain[t][i] # l[2]
      BY <2>5, <3>0, Zenon DEF Traced
    <3>1. l[2] \in 1..n /\ \A i \in 1..Len(chain[t]) : chain'[t][i] # l[2]
      BY <2>2, <3>a
    <3>2. l[2] \in 1..(n + 1) /\ l[2] # n + 1
      BY <1>b, <3>1
    <3>3. QED
      BY <1>2, <2>2, <2>3, <3>1, <3>2
  <2>6. \E i \in 1..Len(chain'[t]) : chain'[t][i] = Len(sent'[t])
    <3>1. Len(chain[t]) + 1 \in 1..Len(chain'[t])
      BY <1>a, <2>2
    <3>2. QED
      BY <1>2, <2>2, <3>1
  <2>7. QED
    BY <1>1, <1>2, <1>3, <1>4, <2>2, <2>4, <2>5, <2>6
<1>5. CASE ~Acknowledged(t, kind[t])
  <2>1. /\ chain' = chain
        /\ \A l \in late' : l \in late \/ l = <<t, n + 1>>
    BY <1>5 DEF Asked, Raised
  <2>2. \A i \in 1..Len(chain[t]) : chain[t][i] \in 1..n
    BY DEF Traced
  <2>3. ASSUME NEW l \in late', l[1] = t
        PROVE  /\ l[2] \in 1..Len(sent'[t])
               /\ \A i \in 1..Len(chain'[t]) : chain'[t][i] # l[2]
    <3>1. CASE l \in late
      BY <1>b, <1>2, <2>1, <2>3, <3>1 DEF Traced
    <3>2. CASE l = <<t, n + 1>>
      BY <1>b, <1>2, <2>1, <2>2, <3>2
    <3>3. QED
      BY <2>1, <3>1, <3>2
  <2>4. \A i \in 1..Len(chain'[t]) : chain'[t][i] \in 1..Len(sent'[t])
    BY <1>b, <1>2, <2>1, <2>2
  <2>5. QED
    BY <1>a, <1>1, <1>2, <1>3, <1>5, <2>1, <2>3, <2>4
<1>6. QED
  BY <1>4, <1>5

LEMMA RecordTraced ==
  ASSUME TypeInv, NEW t \in Tx, GateInv(t), Traced(t), GateInv(t)', Record(t)
  PROVE  Traced(t)' /\ Shown(t)' = Shown(t)
<1>1. /\ pc[t] = "record" /\ pc'[t] \in {"cast", "score", "verify"}
      /\ UNCHANGED <<kind, payment>>
  BY DEF Record, Suspend, AfterReceipt, TypeInv, TypeOK
<1>2. kind[t] \notin Action
  BY <1>1 DEF Traced
<1>3. /\ Shown(t) = <<"none", "none">>
      /\ \A i \in 1..Len(sent[t]) : sent[t][i] \notin Action
  BY <1>1, UnaskedShows DEF Unasked, Early
<1>4. Asked(t)
  BY DEF Record, Asked, TypeInv, TypeOK, Audit
<1>5. /\ sent'[t] \in Seq(Kind) /\ chain'[t] \in Seq(Nat \ {0})
      /\ \A i \in 1..Len(chain'[t]) : chain'[t][i] \in 1..Len(sent'[t])
      /\ \A l \in late' : l[1] = t =>
              /\ l[2] \in 1..Len(sent'[t])
              /\ \A i \in 1..Len(chain'[t]) : chain'[t][i] # l[2]
      /\ \A i \in 1..Len(sent'[t]) : sent'[t][i] \notin Action
  BY <1>2, <1>3, <1>4, AskedTraced
<1>6. Traced(t)'
  BY <1>1, <1>2, <1>5 DEF Traced
<1>7. PolicyReceipt(t)' = "none"
  BY <1>5, NoPolicyYet DEF PolicyReceipt
<1>8. Outcome(t)' = Outcome(t)
  BY <1>1 DEF Outcome
<1>9. QED
  BY <1>3, <1>6, <1>7, <1>8 DEF Shown

LEMMA VerifyTraced ==
  ASSUME TypeInv, NEW t \in Tx, GateInv(t), Traced(t), Verify(t)
  PROVE  Traced(t)' /\ Shown(t)' = Shown(t)
<1>1. PICK status : AskPolicy(t, status)
  BY DEF Verify
<1>2. /\ pc[t] = "verify" /\ pc'[t] = "policyAppend"
      /\ kind'[t] = PolicyFor(result[t], status)
      /\ payment'[t].action = payment[t].action
      /\ UNCHANGED <<chain, late, sent>>
  BY <1>1 DEF Verify, AskPolicy, Suspend, TypeInv, TypeOK, Payment
<1>3. kind'[t] \in Action
  <2>1. result[t] \in Result
    BY DEF TypeInv, TypeOK
  <2>2. QED
    BY <1>2, <2>1, VerdictTypes
<1>4. \A i \in 1..Len(sent[t]) : sent[t][i] \notin Action
  BY <1>2, UnaskedShows DEF Unasked
<1>5. Traced(t)'
  BY <1>2, <1>3, <1>4 DEF Traced
<1>6. QED
  BY <1>2, <1>5 DEF Shown, PolicyReceipt, Outcome

\* One transaction's part in a step of the gate.
Writes(t) ==
  \E a \in Action : /\ PolicyReceipt(t) = "none" /\ PolicyReceipt(t)' = a
                    /\ Gate!Agree(a, Outcome(t)) /\ Outcome(t)' = Outcome(t)

Settles(t) ==
  \E a \in Action : /\ Outcome(t) = "none" /\ Outcome(t)' = a
                    /\ Gate!Agree(PolicyReceipt(t), a)
                    /\ PolicyReceipt(t)' = PolicyReceipt(t)

Discards(t) == Outcome(t)' = "gone" /\ PolicyReceipt(t)' = PolicyReceipt(t)

LEMMA RecordPolicyTraced ==
  ASSUME TypeInv, NEW t \in Tx, GateInv(t), Traced(t), GateInv(t)', RecordPolicy(t)
  PROVE  Traced(t)' /\ (Writes(t) \/ Settles(t))
<1>a. /\ kind[t] \in Kind /\ sent[t] \in Seq(Kind) /\ chain[t] \in Seq(Nat \ {0})
      /\ payment \in [Tx -> Payment] /\ payment[t] \in Payment /\ pc \in [Tx -> Pc]
  BY DEF TypeInv, TypeOK
<1>1. pc[t] = "policyAppend" /\ UNCHANGED <<kind, saved>>
  BY DEF RecordPolicy
<1>2. /\ kind[t] \in Action /\ kind[t] = payment[t].policy
      /\ t \notin saved
  BY <1>1 DEF Traced, GateInv, Where, Terminal
<1>3. /\ PolicyReceipt(t) = "none" /\ Outcome(t) = "none"
      /\ \A i \in 1..Len(sent[t]) : sent[t][i] \notin Action
  BY <1>1, UnaskedShows DEF Unasked, Shown
<1>4. Asked(t)
  <2>1. StatusAfterFailure(audit[t].status) \in AuditStatus
    BY DEF StatusAfterFailure, AuditStatus
  <2>2. QED
    BY <2>1 DEF RecordPolicy, Asked
<1>5. /\ sent'[t] = Append(sent[t], kind[t]) /\ Len(sent'[t]) = Len(sent[t]) + 1
      /\ sent'[t] \in Seq(Kind) /\ chain'[t] \in Seq(Nat \ {0})
      /\ \A i \in 1..Len(chain'[t]) : chain'[t][i] \in 1..Len(sent'[t])
      /\ \A l \in late' : l[1] = t =>
           /\ l[2] \in 1..Len(sent'[t])
           /\ \A i \in 1..Len(chain'[t]) : chain'[t][i] # l[2]
      /\ \A i \in 1..Len(sent'[t]) : sent'[t][i] \in Action =>
           i = Len(sent'[t]) /\ sent'[t][i] = kind[t]
      /\ Acknowledged(t, kind[t]) =>
           \E i \in 1..Len(chain'[t]) : chain'[t][i] = Len(sent'[t])
      /\ ~Acknowledged(t, kind[t]) => chain'[t] = chain[t]
  BY <1>3, <1>4, AskedTraced
<1>6. Len(sent'[t]) > 0 /\ sent'[t][Len(sent'[t])] = kind[t]
  BY <1>a, <1>5
<1>7. CASE /\ Acknowledged(t, kind[t])
           /\ Suspend(t, "policyVerify")
           /\ UNCHANGED payment
  <2>1. pc'[t] = "policyVerify" /\ payment' = payment
    BY <1>a, <1>7 DEF Suspend
  <2>2. Traced(t)'
    BY <1>2, <1>5, <1>6, <1>7, <2>1 DEF Traced
  <2>3. PolicyReceipt(t)' = kind[t]
    BY <1>2, <1>5, <1>6, <1>7, ReceiptFound DEF PolicyReceipt
  <2>4. Outcome(t)' = Outcome(t)
    BY <1>1, <2>1 DEF Outcome
  <2>5. Writes(t)
    BY <1>2, <1>3, <2>3, <2>4 DEF Writes, Gate!Agree
  <2>6. QED
    BY <2>2, <2>5
<1>8. CASE /\ Raised(t, kind[t], StatusAfterFailure(audit[t].status))
           /\ Settle(t, FALSE)
  <2>1. chain'[t] = chain[t]
    BY <1>8 DEF Raised
  <2>2. /\ pc'[t] = "save" /\ payment'[t].policy = payment[t].policy
        /\ payment'[t].action = IF payment[t].policy = "allow" THEN "hold" ELSE payment[t].policy
    BY <1>a, <1>8 DEF Settle, Suspend, Payment
  <2>3. Traced(t)'
    BY <1>2, <1>5, <2>2 DEF Traced, Settled
  <2>4. PolicyReceipt(t)' = PolicyReceipt(t)
    <3>1. \A i \in 1..Len(chain[t]) : chain[t][i] \in 1..Len(sent[t])
      BY DEF Traced
    <3>2. PolicyReceiptIn(Append(sent[t], kind[t]), chain[t]) = PolicyReceiptIn(sent[t], chain[t])
      BY <1>a, <3>1, AskedInVain
    <3>3. QED
      BY <1>5, <2>1, <3>2 DEF PolicyReceipt
  <2>5. Outcome(t)' = payment'[t].action
    BY <2>2 DEF Outcome
  <2>6. Settles(t)
    BY <1>2, <1>3, <2>2, <2>4, <2>5 DEF Settles, Gate!Agree, Action
  <2>7. QED
    BY <2>3, <2>6
<1>9. QED
  BY <1>7, <1>8 DEF RecordPolicy

LEMMA VerifyPolicyTraced ==
  ASSUME TypeInv, NEW t \in Tx, GateInv(t), Traced(t), VerifyPolicy(t)
  PROVE  Traced(t)' /\ Settles(t)
<1>a. /\ sent[t] \in Seq(Kind) /\ chain[t] \in Seq(Nat \ {0})
      /\ payment \in [Tx -> Payment] /\ payment[t] \in Payment /\ pc \in [Tx -> Pc]
  BY DEF TypeInv, TypeOK
<1>1. PICK verified \in BOOLEAN : Settle(t, verified)
  BY DEF VerifyPolicy
<1>2. /\ pc[t] = "policyVerify" /\ pc'[t] = "save"
      /\ UNCHANGED <<kind, saved, chain, late, sent>>
  BY <1>1, <1>a DEF VerifyPolicy, Settle, Suspend
<1>3. /\ payment'[t].policy = payment[t].policy
      /\ payment'[t].action =
           IF payment[t].policy = "allow" /\ ~verified THEN "hold" ELSE payment[t].policy
  BY <1>1, <1>a DEF Settle, Payment
<1>4. PolicyReceipt(t) = payment[t].policy /\ payment[t].policy \in Action
  BY <1>a, <1>2, ReceiptFound DEF Traced, PolicyReceipt
<1>5. Traced(t)'
  BY <1>2, <1>3 DEF Traced, Settled, Kept
<1>6. /\ Outcome(t) = "none" /\ Outcome(t)' = payment'[t].action
      /\ PolicyReceipt(t)' = PolicyReceipt(t)
  BY <1>2 DEF GateInv, Where, Settled, Terminal, Outcome, PolicyReceipt
<1>7. Settles(t)
  BY <1>3, <1>4, <1>6 DEF Settles, Gate!Agree, Action
<1>8. QED
  BY <1>5, <1>7

LEMMA SaveTraced ==
  ASSUME TypeInv, NEW t \in Tx, GateInv(t), Traced(t), Save(t) \/ Notify(t)
  PROVE  Traced(t)' /\ Shown(t)' = Shown(t)
<1>1. /\ UNCHANGED <<kind, payment, chain, late, sent>>
      /\ \/ pc[t] = "save" /\ pc'[t] = "notify"
         \/ pc[t] = "notify" /\ pc'[t] = "replied"
  BY DEF Save, Notify, Suspend, auditVars, TypeInv, TypeOK
<1>2. Traced(t)'
  BY <1>1 DEF Traced, Settled, Terminal, Kept
<1>3. QED
  BY <1>1, <1>2 DEF Shown, PolicyReceipt, Outcome

LEMMA FailTraced ==
  ASSUME TypeInv, NEW t \in Tx, GateInv(t), Traced(t), Fail(t)
  PROVE  Traced(t)' /\ (Shown(t)' = Shown(t) \/ Discards(t))
<1>1. /\ pc[t] \in CanRaise /\ pc'[t] = "failed"
      /\ UNCHANGED <<saved, chain, late, sent>>
      /\ t \in saved => payment'[t] = payment[t]
  BY DEF Fail, Forget, Unsaved, Suspend, auditVars, TypeInv, TypeOK
<1>2. Kept(t)' => Kept(t) /\ payment'[t] = payment[t]
  BY <1>1 DEF Kept
<1>3. Traced(t)'
  BY <1>1, <1>2 DEF Traced, Settled, Terminal
<1>4. PolicyReceipt(t)' = PolicyReceipt(t)
  BY <1>1 DEF PolicyReceipt
<1>5. CASE t \in saved
  BY <1>1, <1>3, <1>4, <1>5 DEF Shown, Outcome
<1>6. CASE t \notin saved
  BY <1>1, <1>3, <1>4, <1>6 DEF Discards, Outcome
<1>7. QED
  BY <1>3, <1>5, <1>6

\* A request that outlives the process, or is carried out after all.
LEMMA CrashTraced ==
  ASSUME TypeInv, NEW t \in Tx, GateInv(t), Traced(t), Crash
  PROVE  Traced(t)' /\ (Shown(t)' = Shown(t) \/ Discards(t))
<1>a. /\ kind[t] \in Kind /\ sent[t] \in Seq(Kind) /\ chain[t] \in Seq(Nat \ {0})
      /\ sent'[t] = (IF Awaiting(t) THEN Append(sent[t], kind[t]) ELSE sent[t])
      /\ UNCHANGED <<chain, saved>>
      /\ \A i \in 1..Len(chain[t]) : chain[t][i] \in 1..Len(sent[t])
  BY DEF Crash, TypeInv, TypeOK, Traced
<1>b. \A l \in late' : l[1] = t => l \in late \/ (Awaiting(t) /\ l[2] = Len(sent[t]) + 1)
  BY DEF Crash
<1>1. PolicyReceipt(t)' = PolicyReceipt(t)
  BY <1>a, AskedInVain DEF PolicyReceipt
<1>2. CASE Running(t)
  <2>1. /\ pc'[t] = "lost"
        /\ t \in saved => payment'[t] = payment[t]
    BY <1>2 DEF Crash, Forget, Unsaved
  <2>2. Shown(t)' = Shown(t) \/ Discards(t)
    BY <1>1, <1>2, <1>a, <2>1 DEF Shown, Discards, Outcome, Running, Terminal
  <2>3. CASE Awaiting(t)
    <3>1. t \notin saved /\ pc[t] \in Unasked
      BY <2>3 DEF Awaiting, GateInv, Where, Terminal, Unasked, Early
    <3>2. \A i \in 1..Len(sent[t]) : sent[t][i] \notin Action
      BY <3>1, UnaskedShows
    <3>3. /\ Len(sent'[t]) = Len(sent[t]) + 1 /\ Len(sent[t]) \in Nat
          /\ \A i \in 1..Len(sent[t]) : sent'[t][i] = sent[t][i]
      BY <1>a, <2>3
    <3>4. \A i \in 1..Len(sent'[t]) : i \in 1..Len(sent[t]) \/ i = Len(sent'[t])
      BY <3>3
    <3>5. \A i \in 1..Len(sent[t]) : i \in 1..Len(sent'[t]) /\ i # Len(sent[t]) + 1
      BY <3>3
    <3>6. Len(sent[t]) + 1 \in 1..Len(sent'[t])
      BY <3>3
    <3>7. \A i \in 1..Len(sent'[t]) : sent'[t][i] \in Action => i = Len(sent'[t])
      BY <3>2, <3>3, <3>4
    <3>8. ASSUME NEW l \in late', l[1] = t
          PROVE  /\ l[2] \in 1..Len(sent'[t])
                 /\ \A i \in 1..Len(chain'[t]) : chain'[t][i] # l[2]
      <4>1. CASE l \in late
        BY <1>a, <3>5, <3>8, <4>1 DEF Traced
      <4>2. CASE l[2] = Len(sent[t]) + 1
        BY <1>a, <3>5, <3>6, <4>2
      <4>3. QED
        BY <1>b, <3>8, <4>1, <4>2
    <3>9. ~Kept(t)'
      BY <1>a, <2>1, <3>1 DEF Kept
    <3>10. Traced(t)'
      BY <1>a, <2>1, <3>5, <3>7, <3>8, <3>9 DEF Traced, Settled, Terminal
    <3>11. QED
      BY <2>2, <3>10
  <2>4. CASE ~Awaiting(t)
    <3>1. sent'[t] = sent[t] /\ \A l \in late' : l[1] = t => l \in late
      BY <1>a, <1>b, <2>4
    <3>2. Kept(t)' => Kept(t) /\ payment'[t] = payment[t]
      BY <1>a, <2>1 DEF Kept
    <3>3. Traced(t)'
      BY <1>a, <2>1, <3>1, <3>2 DEF Traced, Settled, Terminal
    <3>4. QED
      BY <2>2, <3>3
  <2>5. QED
    BY <2>3, <2>4
<1>3. CASE ~Running(t)
  <2>1. ~Awaiting(t)
    BY <1>3 DEF Running, Awaiting, Terminal
  <2>2. Untouched(t)
    BY <1>3, <1>a, <1>b, <2>1 DEF Crash, Untouched, Forget, Unsaved
  <2>3. QED
    BY <2>2, TracedFrame
<1>4. QED
  BY <1>2, <1>3

LEMMA LateTraced ==
  ASSUME TypeInv, NEW t \in Tx, GateInv(t), Traced(t), NEW l \in late, l[1] = t,
         chain' = [chain EXCEPT ![l[1]] = Append(@, l[2])],
         late' = late \ {l}, UNCHANGED <<pipelineVars, sent>>
  PROVE  Traced(t)' /\ (Shown(t)' = Shown(t) \/ Writes(t))
<1>a. /\ sent[t] \in Seq(Kind) /\ chain[t] \in Seq(Nat \ {0})
      /\ chain \in [Tx -> Seq(Nat \ {0})] /\ l[2] \in Nat \ {0}
      /\ \A k \in late : k = <<k[1], k[2]>>
      /\ UNCHANGED <<pc, kind, payment, saved>>
  BY DEF TypeInv, TypeOK, pipelineVars
<1>b. /\ l[2] \in 1..Len(sent[t])
      /\ \A i \in 1..Len(chain[t]) : chain[t][i] \in 1..Len(sent[t]) /\ chain[t][i] # l[2]
      /\ \A i \in 1..Len(sent[t]) : sent[t][i] \in Action => i = Len(sent[t])
  BY DEF Traced
<1>1. chain'[t] = Append(chain[t], l[2])
  BY <1>a
<1>2. /\ Len(chain'[t]) = Len(chain[t]) + 1 /\ chain'[t] \in Seq(Nat \ {0})
      /\ \A i \in 1..Len(chain[t]) : chain'[t][i] = chain[t][i]
      /\ chain'[t][Len(chain[t]) + 1] = l[2]
      /\ Len(chain[t]) \in Nat
  BY <1>a, <1>1
<1>3. /\ \A i \in 1..Len(chain'[t]) : i \in 1..Len(chain[t]) \/ i = Len(chain[t]) + 1
      /\ \A i \in 1..Len(chain[t]) : i \in 1..Len(chain'[t])
      /\ Len(chain[t]) + 1 \in 1..Len(chain'[t])
  BY <1>2
<1>4. \A i \in 1..Len(chain'[t]) : chain'[t][i] \in 1..Len(sent[t])
  BY <1>b, <1>2, <1>3
<1>5. ASSUME NEW k \in late', k[1] = t
      PROVE  k[2] \in 1..Len(sent[t]) /\ \A i \in 1..Len(chain'[t]) : chain'[t][i] # k[2]
  <2>1. k \in late /\ k # l
    BY <1>5
  <2>2. k[2] # l[2]
    BY <1>a, <1>5, <2>1
  <2>3. k[2] \in 1..Len(sent[t]) /\ \A i \in 1..Len(chain[t]) : chain[t][i] # k[2]
    BY <1>5, <2>1 DEF Traced
  <2>4. QED
    BY <1>2, <1>3, <2>2, <2>3
<1>6. Traced(t)'
  <2>1. /\ pc[t] \in {"record", "cast"} => kind[t] \notin Action
        /\ pc[t] = "policyAppend" => kind[t] \in Action
        /\ \A i \in 1..Len(sent[t]) : sent[t][i] \in Action =>
             /\ i = Len(sent[t])
             /\ pc[t] \in {"policyVerify"} \cup Settled
             /\ Kept(t) => sent[t][i] = payment[t].policy
        /\ pc[t] = "policyVerify" =>
             /\ Len(sent[t]) > 0
             /\ sent[t][Len(sent[t])] = payment[t].policy
             /\ payment[t].policy \in Action
             /\ \E i \in 1..Len(chain[t]) : chain[t][i] = Len(sent[t])
    BY DEF Traced
  <2>2. Kept(t)' <=> Kept(t)
    BY <1>a DEF Kept
  <2>3. UNCHANGED sent
    OBVIOUS
  <2>4. (\E i \in 1..Len(chain[t]) : chain[t][i] = Len(sent[t])) =>
          \E i \in 1..Len(chain'[t]) : chain'[t][i] = Len(sent[t])
    BY <1>2, <1>3
  <2>5. QED
    BY <1>a, <1>4, <1>5, <2>1, <2>2, <2>3, <2>4 DEF Traced
<1>7. Outcome(t)' = Outcome(t)
  BY <1>a DEF Outcome
<1> DEFINE found(c) == Len(sent[t]) > 0 /\ sent[t][Len(sent[t])] \in Action
                         /\ \E i \in 1..Len(c) : c[i] = Len(sent[t])
<1>8. /\ PolicyReceipt(t) = IF found(chain[t]) THEN sent[t][Len(sent[t])] ELSE "none"
      /\ PolicyReceipt(t)' = IF found(chain'[t]) THEN sent[t][Len(sent[t])] ELSE "none"
  BY <1>a, <1>b, <1>2, <1>4, ReceiptFound, ZenonT(30) DEF PolicyReceipt
<1>9. CASE sent[t][l[2]] \in Action
  <2>1. /\ l[2] = Len(sent[t]) /\ ~found(chain[t]) /\ found(chain'[t])
    BY <1>a, <1>b, <1>2, <1>3, <1>9
  <2>2. /\ PolicyReceipt(t) = "none" /\ PolicyReceipt(t)' = sent[t][l[2]]
    BY <1>8, <2>1
  <2>3. Kept(t) => sent[t][l[2]] = payment[t].policy
    BY <1>b, <1>9 DEF Traced
  <2>4. Gate!Agree(sent[t][l[2]], Outcome(t))
    <3>1. CASE Kept(t)
      BY <2>3, <3>1 DEF Gate!Agree, GateInv, Decision, Outcome
    <3>2. CASE ~Kept(t)
      BY <3>2 DEF Gate!Agree, Outcome, Kept
    <3>3. QED
      BY <3>1, <3>2
  <2>5. Writes(t)
    BY <1>7, <1>9, <2>2, <2>4 DEF Writes
  <2>6. QED
    BY <1>6, <2>5
<1>10. CASE sent[t][l[2]] \notin Action
  <2>1. found(chain'[t]) <=> found(chain[t])
    BY <1>2, <1>3, <1>10
  <2>2. QED
    BY <1>6, <1>7, <1>8, <2>1 DEF Shown
<1>11. QED
  BY <1>9, <1>10

\* What a step does to one transaction, as the gate sees it: others are left alone.
LEMMA OwnShows ==
  ASSUME TypeInv, NEW t \in Tx, GateInv(t), Traced(t), GateInv(t)',
         Start(t) \/ Advance(t) \/ Fail(t)
  PROVE  Traced(t)' /\ (Shown(t)' = Shown(t) \/ Writes(t) \/ Settles(t) \/ Discards(t))
<1>1. \/ EarlyAction(t) \/ Record(t) \/ Verify(t) \/ RecordPolicy(t) \/ VerifyPolicy(t)
      \/ Save(t) \/ Notify(t) \/ Fail(t)
  BY DEF Advance, EarlyAction
<1>2. QED
  BY <1>1, EarlyTraced, RecordTraced, VerifyTraced, RecordPolicyTraced, VerifyPolicyTraced,
     SaveTraced, FailTraced

\* The gate's variables, as the refinement maps them.
Receipts == [t \in Tx |-> PolicyReceipt(t)]
Outcomes == [t \in Tx |-> Outcome(t)]

LEMMA NothingShows ==
  ASSUME \A t \in Tx : Shown(t)' = Shown(t)
  PROVE  UNCHANGED Gate!vars
<1>1. \A u \in Tx : PolicyReceipt(u)' = PolicyReceipt(u) /\ Outcome(u)' = Outcome(u)
  BY DEF Shown
<1>2. UNCHANGED <<Receipts, Outcomes>>
  BY <1>1 DEF Receipts, Outcomes
<1>3. QED
  BY <1>2 DEF Gate!vars, Receipts, Outcomes

LEMMA DiscardShows ==
  ASSUME NEW T \in SUBSET Tx,
         \A u \in Tx : /\ PolicyReceipt(u)' = PolicyReceipt(u)
                       /\ Outcome(u)' = IF u \in T THEN "gone" ELSE Outcome(u)
  PROVE  Gate!Next
<1>1. UNCHANGED Receipts
  BY DEF Receipts
<1>2. Outcomes' = [u \in Tx |-> IF u \in T THEN "gone" ELSE Outcomes[u]]
  BY DEF Outcomes
<1>3. Gate!Discard(T)
  BY <1>1, <1>2 DEF Gate!Discard, Receipts, Outcomes
<1>4. QED
  BY <1>3 DEF Gate!Next

\* A step that the gate sees at one transaction only is one of the gate's.
LEMMA OneShows ==
  ASSUME NEW t \in Tx, \A u \in Tx : u # t => Shown(u)' = Shown(u),
         Shown(t)' = Shown(t) \/ Writes(t) \/ Settles(t) \/ Discards(t)
  PROVE  [Gate!Next]_(Gate!vars)
<1>1. \A u \in Tx : u # t => /\ PolicyReceipt(u)' = PolicyReceipt(u)
                             /\ Outcome(u)' = Outcome(u)
  BY DEF Shown
<1>2. CASE Shown(t)' = Shown(t)
  BY <1>2, NothingShows
<1>3. CASE Writes(t)
  <2>1. PICK a \in Action : /\ PolicyReceipt(t) = "none" /\ PolicyReceipt(t)' = a
                            /\ Gate!Agree(a, Outcome(t)) /\ Outcome(t)' = Outcome(t)
    BY <1>3 DEF Writes
  <2>2. Receipts' = [Receipts EXCEPT ![t] = a] /\ UNCHANGED Outcomes
    BY <1>1, <2>1 DEF Receipts, Outcomes
  <2>3. Receipts[t] = "none" /\ Outcomes[t] = Outcome(t)
    BY <2>1 DEF Receipts, Outcomes
  <2>4. Gate!Write(t, a)
    BY <2>1, <2>2, <2>3 DEF Gate!Write, Receipts, Outcomes
  <2>5. QED
    BY <2>4 DEF Gate!Next, Gate!Action, Action
<1>4. CASE Settles(t)
  <2>1. PICK a \in Action : /\ Outcome(t) = "none" /\ Outcome(t)' = a
                            /\ Gate!Agree(PolicyReceipt(t), a)
                            /\ PolicyReceipt(t)' = PolicyReceipt(t)
    BY <1>4 DEF Settles
  <2>2. Outcomes' = [Outcomes EXCEPT ![t] = a] /\ UNCHANGED Receipts
    BY <1>1, <2>1 DEF Receipts, Outcomes
  <2>3. Outcomes[t] = "none" /\ Receipts[t] = PolicyReceipt(t)
    BY <2>1 DEF Receipts, Outcomes
  <2>4. Gate!Settle(t, a)
    BY <2>1, <2>2, <2>3 DEF Gate!Settle, Receipts, Outcomes
  <2>5. QED
    BY <2>4 DEF Gate!Next, Gate!Action, Action
<1>5. CASE Discards(t)
  <2>1. \A u \in Tx : /\ PolicyReceipt(u)' = PolicyReceipt(u)
                      /\ Outcome(u)' = IF u \in {t} THEN "gone" ELSE Outcome(u)
    BY <1>1, <1>5 DEF Discards
  <2>2. QED
    BY <2>1, DiscardShows
<1>6. QED
  BY <1>2, <1>3, <1>4, <1>5

\* What the surroundings do to it.
LEMMA EnvironmentShows ==
  ASSUME TypeInv, Environment, \A t \in Tx : GateInv(t) /\ Traced(t)
  PROVE  (\A t \in Tx : Traced(t)') /\ [Gate!Next]_(Gate!vars)
<1>1. CASE Crash
  <2>1. \A t \in Tx : Traced(t)' /\ (Shown(t)' = Shown(t) \/ Discards(t))
    BY <1>1, CrashTraced
  <2> DEFINE T == {t \in Tx : Outcome(t)' = "gone"}
  <2>2. \A t \in Tx : /\ PolicyReceipt(t)' = PolicyReceipt(t)
                      /\ Outcome(t)' = IF t \in T THEN "gone" ELSE Outcome(t)
    BY <2>1 DEF Shown, Discards
  <2>3. Gate!Next
    BY <2>2, DiscardShows
  <2>4. QED
    BY <2>1, <2>3
<1>2. CASE AppendLate
  <2>1. PICK l \in late : /\ chain' = [chain EXCEPT ![l[1]] = Append(@, l[2])]
                          /\ late' = late \ {l}
                          /\ UNCHANGED <<pipelineVars, sent>>
    BY <1>2 DEF AppendLate
  <2>2. l[1] \in Tx
    BY <2>1 DEF TypeInv, TypeOK
  <2>3. Traced(l[1])' /\ (Shown(l[1])' = Shown(l[1]) \/ Writes(l[1]))
    BY <2>1, <2>2, LateTraced
  <2>4. ASSUME NEW t \in Tx, t # l[1]
        PROVE  Traced(t)' /\ Shown(t)' = Shown(t)
    <3>1. Untouched(t)
      BY <2>1, <2>2, <2>4 DEF Untouched, pipelineVars, TypeInv, TypeOK
    <3>2. QED
      BY <3>1, TracedFrame
  <2>5. [Gate!Next]_(Gate!vars)
    BY <2>2, <2>3, <2>4, OneShows
  <2>6. QED
    BY <2>2, <2>3, <2>4, <2>5
<1>3. CASE ChainShifts \/ \E a \in Account : SecurityEvent(a) \/ EventExpires(a)
  <2>1. \A t \in Tx : Untouched(t)
    BY <1>3 DEF ChainShifts, SecurityEvent, EventExpires, Untouched,
                pipelineVars, auditVars
  <2>2. \A t \in Tx : Traced(t)' /\ Shown(t)' = Shown(t)
    BY <2>1, TracedFrame
  <2>3. [Gate!Next]_(Gate!vars)
    BY <2>2, NothingShows
  <2>4. QED
    BY <2>2, <2>3
<1>4. QED
  BY <1>1, <1>2, <1>3 DEF Environment

LEMMA GateStep ==
  ASSUME GateRefInv, IInv', [Next]_vars
  PROVE  GateRefInv' /\ [Gate!Next]_(Gate!vars)
<1>1. TypeInv /\ \A t \in Tx : GateInv(t) /\ Traced(t) /\ GateInv(t)'
  BY DEF GateRefInv, IInv
<1>2. CASE Environment
  BY <1>1, <1>2, EnvironmentShows DEF GateRefInv
<1>3. CASE \E t \in Tx : Start(t) \/ Advance(t) \/ Fail(t)
  <2>1. PICK t \in Tx : Start(t) \/ Advance(t) \/ Fail(t)
    BY <1>3
  <2>2. Traced(t)' /\ (Shown(t)' = Shown(t) \/ Writes(t) \/ Settles(t) \/ Discards(t))
    BY <1>1, <2>1, OwnShows
  <2>3. ASSUME NEW u \in Tx, u # t PROVE Traced(u)' /\ Shown(u)' = Shown(u)
    <3>1. Untouched(u)
      BY <1>1, <2>1, <2>3, OthersUntouched
    <3>2. QED
      BY <1>1, <3>1, TracedFrame
  <2>4. [Gate!Next]_(Gate!vars)
    BY <2>2, <2>3, OneShows
  <2>5. QED
    BY <2>2, <2>3, <2>4 DEF GateRefInv
<1>4. CASE UNCHANGED vars
  <2>1. \A t \in Tx : Untouched(t)
    BY <1>4 DEF vars, pipelineVars, auditVars, Untouched
  <2>2. \A t \in Tx : Traced(t)' /\ Shown(t)' = Shown(t)
    BY <1>1, <2>1, TracedFrame
  <2>3. QED
    BY <2>2, NothingShows DEF GateRefInv
<1>5. QED
  BY <1>2, <1>3, <1>4 DEF Next

\* The pipeline implements the payment gate: whatever fails, crashes or lands late,
\* a case gets at most one policy receipt, never one that contradicts what became of
\* its payment, and no payment is executed before its allow is on the chain.
THEOREM GateRefinement == Spec => ImplementsGate
<1>1. Init => GateRefInv
  BY InitTypes, InitGate, InitTraced DEF GateRefInv, IInv
<1>2. Init => Gate!Init
  <2>1. ASSUME Init, NEW t \in Tx PROVE PolicyReceipt(t) = "none" /\ Outcome(t) = "none"
    BY <2>1 DEF Init, PolicyReceipt, PolicyReceiptIn, Outcome, NewPayment
  <2>2. QED
    BY <2>1 DEF Gate!Init
<1>3. GateRefInv /\ IInv' /\ [Next]_vars => GateRefInv' /\ [Gate!Next]_(Gate!vars)
  BY GateStep
<1>4. QED
  BY <1>1, <1>2, <1>3, GateInvariance, PTL DEF Spec, ImplementsGate, Gate!Spec

-----------------------------------------------------------------------------
(* The trail of a case, step by step.                                       *)

\* What the receipts `s` asked for so far say of the verdicts `r` so far, after n
\* tool events, at each place a case can be at: the trail up to that place.
Open(r) == r.triage = "none" /\ ~r.compliance /\ ~r.fused
Searching(r) == r.triage = "escalate" /\ ~r.compliance /\ ~r.fused
Told(r, n) ==
  /\ r.triage # "escalate" => (n = 0 /\ ~r.compliance /\ ~r.fused)
  /\ r.fused => r.alert = SeverityFor(r.case.score, TRUE)

Tale(at, k, left, r, s, policy, n) ==
  LET Asks(what) == at = "record" /\ k = what
      Casts(what) == at = "cast" /\ k = what
  IN  /\ (at = "idle" \/ Asks("case.opened")) => (s = <<>> /\ Open(r))
      /\ (at = "score" \/ Asks("rules")) => (s = <<"case.opened">> /\ Open(r))
      /\ (Casts("rules") \/ Asks("prefilter")) => (s = <<"case.opened", "rules">> /\ Open(r))
      /\ (Casts("prefilter") \/ at = "triage") => (s = Checked /\ Open(r))
      /\ Asks("triage") => (s = Checked /\ r.triage # "none" /\ ~r.compliance /\ ~r.fused)
      /\ Casts("triage") => (s = Triaged(r) /\ r.triage # "none" /\ ~r.compliance /\ ~r.fused)
      /\ at = "investigate" => (s = Searched(r, n) /\ n = 0 /\ Searching(r))
      /\ Asks("tool") => (s = Searched(r, n) /\ n + left <= MaxTools /\ Searching(r))
      /\ Casts("tool") => (s = Searched(r, n) /\ n + (left - 1) <= MaxTools /\ Searching(r))
      /\ Asks("investigation") => (s = Searched(r, n) /\ Searching(r))
      /\ (Casts("investigation") \/ at = "comply") => (s = Found(r, n) /\ Searching(r))
      /\ Asks("compliance") => (s = Found(r, n) /\ r.triage = "escalate" /\ r.compliance /\ ~r.fused)
      /\ Casts("compliance") => (s = Complied(r, n) /\ r.triage = "escalate" /\ ~r.fused)
      /\ Asks("fusion") => (s = Complied(r, n) /\ r.triage = "escalate" /\ r.fused)
      /\ Casts("fusion") => (s = Fused(r, n) /\ r.triage = "escalate" /\ r.fused)
      /\ Asks("closed") => (s = Fused(r, n) /\ r.triage # "escalate" /\ Told(r, n))
      /\ Asks("alert") => (s = Fused(r, n) /\ r.triage = "escalate" /\ Told(r, n))
      /\ (Casts("closed") \/ Casts("alert") \/ Asks("case.completed")) =>
           (s = Closed(r, n) /\ Told(r, n))
      /\ at \in {"verify", "policyAppend"} =>
           (s = Append(Closed(r, n), "case.completed") /\ Told(r, n))
      /\ at \in {"policyVerify"} \cup Settled => (s = Trail(r, n, policy) /\ Told(r, n))

Story(t, n) ==
  Tale(pc[t], kind[t], tools[t], result[t], sent[t], payment[t].policy, n)

TrailInv ==
  /\ IInv
  /\ \A t \in Tx : Kept(t) => \E n \in 0..MaxTools : Story(t, n)

\* n tool events after s, and one more.
ToolEvents(n) == [i \in 1..n |-> "tool"]

LEMMA ToolsAfter ==
  ASSUME NEW s \in Seq(Kind), NEW n \in Nat
  PROVE  /\ s \o ToolEvents(n) \in Seq(Kind)
         /\ Len(s \o ToolEvents(n)) = Len(s) + n
         /\ \A i \in 1..Len(s) : (s \o ToolEvents(n))[i] = s[i]
         /\ \A i \in 1..n : (s \o ToolEvents(n))[Len(s) + i] = "tool"
<1>1. "tool" \in Kind
  BY DEF Kind
<1>2. ToolEvents(n) \in Seq(Kind) /\ Len(ToolEvents(n)) = n
  BY <1>1 DEF ToolEvents
<1>3. \A i \in 1..n : ToolEvents(n)[i] = "tool"
  BY DEF ToolEvents
<1>4. QED
  BY <1>2, <1>3

LEMMA SearchGrows ==
  ASSUME NEW s \in Seq(Kind), NEW n \in Nat
  PROVE  /\ s \o ToolEvents(0) = s
         /\ Append(s \o ToolEvents(n), "tool") = s \o ToolEvents(n + 1)
<1> DEFINE z == s \o ToolEvents(0)
           u == s \o ToolEvents(n)
           v == s \o ToolEvents(n + 1)
<1>a. Len(s) \in Nat /\ n + 1 \in Nat /\ "tool" \in Kind
  BY DEF Kind
<1>1. z \in Seq(Kind) /\ Len(z) = Len(s) /\ \A i \in 1..Len(s) : z[i] = s[i]
  BY <1>a, ToolsAfter
<1>2. /\ u \in Seq(Kind) /\ Len(u) = Len(s) + n
      /\ \A i \in 1..Len(s) : u[i] = s[i]
      /\ \A i \in 1..n : u[Len(s) + i] = "tool"
  BY ToolsAfter
<1>3. /\ v \in Seq(Kind) /\ Len(v) = Len(s) + (n + 1)
      /\ \A i \in 1..Len(s) : v[i] = s[i]
      /\ \A i \in 1..(n + 1) : v[Len(s) + i] = "tool"
  BY <1>a, ToolsAfter
<1> HIDE DEF z, u, v
<1>4. z = s
  BY <1>1, SeqEqual, Zenon
<1>5. ASSUME NEW i \in 1..Len(u) PROVE v[i] = u[i]
  <2>1. CASE i \in 1..Len(s)
    BY <1>2, <1>3, <2>1
  <2>2. CASE i \notin 1..Len(s)
    <3>1. PICK j \in 1..n : i = Len(s) + j
      <4>1. i - Len(s) \in 1..n /\ i = Len(s) + (i - Len(s))
        BY <1>a, <1>2, <1>5, <2>2
      <4>2. QED
        BY <4>1
    <3>2. j \in 1..(n + 1)
      OBVIOUS
    <3>3. QED
      BY <1>2, <1>3, <3>1, <3>2
  <2>3. QED
    BY <2>1, <2>2
<1>6. Len(v) = Len(u) + 1 /\ v[Len(u) + 1] = "tool"
  <2>1. PICK j \in 1..(n + 1) : j = n + 1
    BY <1>a
  <2>2. v[Len(s) + j] = "tool" /\ Len(s) + j = Len(u) + 1
    BY <1>a, <1>2, <1>3, <2>1
  <2>3. QED
    BY <1>a, <1>2, <1>3, <2>2
<1>7. Append(u, "tool") = v
  BY <1>a, <1>2, <1>3, <1>5, <1>6, AppendIs
<1>8. QED
  BY <1>4, <1>7 DEF z, u, v

\* The first receipts of every case.
LEMMA FirstThree ==
  /\ Append(<<>>, "case.opened") = <<"case.opened">>
  /\ Append(<<"case.opened">>, "rules") = <<"case.opened", "rules">>
  /\ Append(<<"case.opened", "rules">>, "prefilter") = Checked
  /\ Checked \in Seq(Kind)
<1>a. "case.opened" \in Kind /\ "rules" \in Kind /\ "prefilter" \in Kind
  BY DEF Kind
<1> DEFINE zero == <<>>
           one == <<"case.opened">>
           two == <<"case.opened", "rules">>
           three == <<"case.opened", "rules", "prefilter">>
<1>1. zero \in Seq(Kind) /\ Len(zero) = 0
  OBVIOUS
<1>2. one \in Seq(Kind) /\ Len(one) = 1 /\ one[1] = "case.opened"
  BY <1>a
<1>3. two \in Seq(Kind) /\ Len(two) = 2 /\ two[1] = "case.opened" /\ two[2] = "rules"
  BY <1>a
<1>4. /\ three \in Seq(Kind) /\ Len(three) = 3
      /\ three[1] = "case.opened" /\ three[2] = "rules" /\ three[3] = "prefilter"
  BY <1>a
<1> HIDE DEF zero, one, two, three
<1>5. Append(zero, "case.opened") = one
  BY <1>a, <1>1, <1>2, AppendIs
<1>6. Append(one, "rules") = two
  <2>1. /\ Len(two) = Len(one) + 1 /\ two[Len(one) + 1] = "rules"
        /\ \A i \in 1..Len(one) : two[i] = one[i]
    BY <1>2, <1>3
  <2>2. QED
    BY <1>a, <1>2, <1>3, <2>1, AppendIs, ZenonT(30)
<1>7. Append(two, "prefilter") = three
  <2>1. \A i \in 1..2 : i = 1 \/ i = 2
    OBVIOUS
  <2>2. /\ Len(three) = Len(two) + 1 /\ three[Len(two) + 1] = "prefilter"
        /\ \A i \in 1..Len(two) : three[i] = two[i]
    BY <1>3, <1>4, <2>1
  <2>3. QED
    BY <1>a, <1>3, <1>4, <2>2, AppendIs, ZenonT(30)
<1>8. QED
  BY <1>4, <1>5, <1>6, <1>7 DEF zero, one, two, three, Checked

\* The parts of a trail, each from the one before, and what each depends on.
LEMMA TrailParts ==
  ASSUME NEW r, NEW n \in Nat
  PROVE  /\ r.triage = "none" => Triaged(r) = Checked
         /\ r.triage # "none" => Triaged(r) = Append(Checked, "triage")
         /\ Searched(r, 0) = Triaged(r)
         /\ Append(Searched(r, n), "tool") = Searched(r, n + 1)
         /\ r.triage = "escalate" => Found(r, n) = Append(Searched(r, n), "investigation")
         /\ r.triage # "escalate" => Found(r, n) = Searched(r, n)
         /\ r.compliance => Complied(r, n) = Append(Found(r, n), "compliance")
         /\ ~r.compliance => Complied(r, n) = Found(r, n)
         /\ r.fused => Fused(r, n) = Append(Complied(r, n), "fusion")
         /\ ~r.fused => Fused(r, n) = Complied(r, n)
         /\ r.triage = "escalate" => Closed(r, n) = Append(Fused(r, n), "alert")
         /\ r.triage # "escalate" => Closed(r, n) = Append(Fused(r, n), "closed")
<1>1. Triaged(r) \in Seq(Kind)
  <2>1. Append(Checked, "triage") \in Seq(Kind)
    <3>1. "triage" \in Kind
      BY DEF Kind
    <3>2. QED
      BY <3>1, FirstThree
  <2>2. QED
    BY <2>1, FirstThree DEF Triaged, AppendIf
<1>2. \A m \in Nat : Searched(r, m) = Triaged(r) \o ToolEvents(m)
  BY DEF Searched, ToolEvents
<1>3. Searched(r, 0) = Triaged(r) /\ Append(Searched(r, n), "tool") = Searched(r, n + 1)
  <2>1. n + 1 \in Nat /\ 0 \in Nat
    OBVIOUS
  <2>2. /\ Triaged(r) \o ToolEvents(0) = Triaged(r)
        /\ Append(Triaged(r) \o ToolEvents(n), "tool") = Triaged(r) \o ToolEvents(n + 1)
    BY <1>1, <2>1, SearchGrows, Zenon
  <2>3. QED
    BY <1>2, <2>1, <2>2, Zenon
<1>4. /\ r.triage = "none" => Triaged(r) = Checked
      /\ r.triage # "none" => Triaged(r) = Append(Checked, "triage")
  BY DEF Triaged, AppendIf
<1>5. /\ r.triage = "escalate" => Found(r, n) = Append(Searched(r, n), "investigation")
      /\ r.triage # "escalate" => Found(r, n) = Searched(r, n)
  BY DEF Found, AppendIf
<1>6. /\ r.compliance => Complied(r, n) = Append(Found(r, n), "compliance")
      /\ ~r.compliance => Complied(r, n) = Found(r, n)
  BY DEF Complied, AppendIf
<1>7. /\ r.fused => Fused(r, n) = Append(Complied(r, n), "fusion")
      /\ ~r.fused => Fused(r, n) = Complied(r, n)
  BY DEF Fused, AppendIf
<1>8. /\ r.triage = "escalate" => Closed(r, n) = Append(Fused(r, n), "alert")
      /\ r.triage # "escalate" => Closed(r, n) = Append(Fused(r, n), "closed")
  BY DEF Closed
<1>9. QED
  BY <1>3, <1>4, <1>5, <1>6, <1>7, <1>8

\* Nothing was asked of an agent.
LEMMA NoSearch ==
  ASSUME NEW r, r.triage # "escalate", ~r.compliance, ~r.fused
  PROVE  Fused(r, 0) = Triaged(r)
<1>1. 0 \in Nat
  OBVIOUS
<1>2. Searched(r, 0) = Triaged(r)
  BY <1>1, TrailParts
<1>3. Found(r, 0) = Searched(r, 0)
  BY <1>1, TrailParts
<1>4. Complied(r, 0) = Found(r, 0)
  BY <1>1, TrailParts
<1>5. Fused(r, 0) = Complied(r, 0)
  BY <1>1, TrailParts
<1>6. QED
  BY <1>2, <1>3, <1>4, <1>5

LEMMA TrailDepends ==
  ASSUME NEW r, NEW q, NEW n, q.triage = r.triage
  PROVE  /\ Triaged(q) = Triaged(r) /\ Searched(q, n) = Searched(r, n)
         /\ Found(q, n) = Found(r, n)
         /\ q.compliance = r.compliance => Complied(q, n) = Complied(r, n)
         /\ (q.compliance = r.compliance /\ q.fused = r.fused) =>
              Fused(q, n) = Fused(r, n) /\ Closed(q, n) = Closed(r, n)
<1>1. Triaged(q) = Triaged(r)
  BY DEF Triaged
<1>2. Searched(q, n) = Searched(r, n)
  BY <1>1 DEF Searched
<1>3. Found(q, n) = Found(r, n)
  BY <1>2 DEF Found
<1>4. q.compliance = r.compliance => Complied(q, n) = Complied(r, n)
  BY <1>3 DEF Complied
<1>5. (q.compliance = r.compliance /\ q.fused = r.fused) => Fused(q, n) = Fused(r, n)
  BY <1>4 DEF Fused
<1>6. (q.compliance = r.compliance /\ q.fused = r.fused) => Closed(q, n) = Closed(r, n)
  BY <1>5 DEF Closed
<1>7. QED
  BY <1>1, <1>2, <1>3, <1>4, <1>5, <1>6

\* A transaction nothing but the chain moves for keeps its story.
LEMMA StoryFrame ==
  ASSUME NEW t \in Tx, NEW n, Story(t, n),
         pc'[t] = pc[t], kind'[t] = kind[t], tools'[t] = tools[t],
         result'[t] = result[t], sent'[t] = sent[t], payment'[t] = payment[t]
  PROVE  Story(t, n)'
  BY DEF Story

\* The first steps: the checks, and where they lead.
LEMMA StoryOpens ==
  ASSUME TypeInv, NEW t \in Tx, NEW n \in 0..MaxTools, Story(t, n),
         Start(t) \/ Score(t) \/ AfterRules(t) \/ AfterPrefilter(t)
           \/ Triage(t) \/ AfterTriage(t)
  PROVE  \E m \in 0..MaxTools : Story(t, m)'
<1> USE DEF Emit, Suspend, Cast
<1> DEFINE r == result[t]
           q == result'[t]
<1>a. pc \in [Tx -> Pc] /\ kind \in [Tx -> Kind] /\ result \in [Tx -> Result] /\ r \in Result
  BY DEF TypeInv, TypeOK
<1>b. 0 \in 0..MaxTools /\ 0 \in Nat
  BY PipelineAssumption
<1>1. CASE Start(t)
  <2>1. /\ pc[t] = "idle" /\ pc'[t] = "record" /\ kind'[t] = "case.opened"
        /\ sent' = sent /\ result' = result
    BY <1>1, <1>a DEF Start, auditVars
  <2>2. Story(t, n)'
    BY <2>1 DEF Story, Tale, Settled, Terminal
  <2>3. QED
    BY <2>2
<1>2. CASE Score(t)
  <2>1. /\ pc[t] = "score" /\ pc'[t] = "record" /\ kind'[t] = "rules" /\ sent' = sent
        /\ q.triage = r.triage /\ q.compliance = r.compliance /\ q.fused = r.fused
    BY <1>2, <1>a DEF Score, auditVars, Result
  <2>2. sent[t] = <<"case.opened">> /\ Open(r)
    BY <2>1 DEF Story, Tale
  <2>3. Story(t, n)'
    BY <2>1, <2>2 DEF Story, Tale, Open, Settled, Terminal
  <2>4. QED
    BY <2>3
<1>3. CASE AfterRules(t)
  <2>1. /\ pc[t] = "cast" /\ kind[t] = "rules" /\ pc'[t] = "record"
        /\ kind'[t] = "prefilter" /\ sent' = sent
        /\ q.triage = r.triage /\ q.compliance = r.compliance /\ q.fused = r.fused
    BY <1>3, <1>a DEF AfterRules, auditVars, Result
  <2>2. sent[t] = <<"case.opened", "rules">> /\ Open(r)
    BY <2>1 DEF Story, Tale
  <2>3. Story(t, n)'
    BY <2>1, <2>2 DEF Story, Tale, Open, Settled, Terminal
  <2>4. QED
    BY <2>3
<1>4. CASE AfterPrefilter(t)
  <2>1. /\ pc[t] = "cast" /\ kind[t] = "prefilter" /\ sent' = sent /\ q = r
        /\ \/ pc'[t] = "record" /\ kind'[t] = "closed"
           \/ pc'[t] = "triage"
    BY <1>4, <1>a DEF AfterPrefilter, auditVars
  <2>2. sent[t] = Checked /\ Open(r)
    BY <2>1 DEF Story, Tale
  <2>3. Fused(r, 0) = Checked
    <3>1. Triaged(r) = Checked
      BY <1>b, <2>2, TrailParts DEF Open
    <3>2. QED
      BY <2>2, <3>1, NoSearch DEF Open
  <2>4. Story(t, 0)'
    BY <2>1, <2>2, <2>3 DEF Story, Tale, Open, Told, Settled, Terminal
  <2>5. QED
    BY <1>b, <2>4
<1>5. CASE Triage(t)
  <2>1. /\ pc[t] = "triage" /\ pc'[t] = "record" /\ kind'[t] = "triage" /\ sent' = sent
        /\ q.triage # "none" /\ q.compliance = r.compliance /\ q.fused = r.fused
    BY <1>5, <1>a DEF Triage, auditVars, Result
  <2>2. sent[t] = Checked /\ Open(r)
    BY <2>1 DEF Story, Tale
  <2>3. Story(t, n)'
    BY <2>1, <2>2 DEF Story, Tale, Open, Settled, Terminal
  <2>4. QED
    BY <2>3
<1>6. CASE AfterTriage(t)
  <2>1. /\ pc[t] = "cast" /\ kind[t] = "triage" /\ sent' = sent /\ q = r
        /\ \/ pc'[t] = "record" /\ kind'[t] = "closed" /\ r.triage # "escalate"
           \/ pc'[t] = "investigate" /\ r.triage = "escalate"
    BY <1>6, <1>a DEF AfterTriage, auditVars
  <2>2. sent[t] = Triaged(r) /\ r.triage # "none" /\ ~r.compliance /\ ~r.fused
    BY <2>1 DEF Story, Tale
  <2>3. Searched(r, 0) = Triaged(r) /\ (r.triage # "escalate" => Fused(r, 0) = Triaged(r))
    <3>1. Searched(r, 0) = Triaged(r)
      BY <1>b, TrailParts
    <3>2. QED
      BY <2>2, <3>1, NoSearch
  <2>4. Story(t, 0)'
    BY <2>1, <2>2, <2>3 DEF Story, Tale, Searching, Told, Settled, Terminal
  <2>5. QED
    BY <1>b, <2>4
<1>7. QED
  BY <1>1, <1>2, <1>3, <1>4, <1>5, <1>6

\* The investigation, up to the alert.
LEMMA StoryInvestigates ==
  ASSUME TypeInv, NEW t \in Tx, NEW n \in 0..MaxTools, Story(t, n),
         Investigate(t) \/ AfterTool(t) \/ AfterInvestigation(t) \/ Comply(t)
           \/ AfterCompliance(t) \/ AfterFusion(t) \/ AfterLastEvent(t)
  PROVE  Story(t, n)'
<1> USE DEF Emit, Suspend, Cast
<1> DEFINE r == result[t]
           q == result'[t]
<1>a. /\ pc \in [Tx -> Pc] /\ kind \in [Tx -> Kind] /\ tools \in [Tx -> Nat]
      /\ result \in [Tx -> Result] /\ r \in Result
  BY DEF TypeInv, TypeOK
<1>b. n \in Nat /\ MaxTools \in Nat
  BY PipelineAssumption
<1>c. r.compliance \in BOOLEAN /\ r.fused \in BOOLEAN
  BY <1>a DEF Result
<1>1. CASE Investigate(t)
  <2>1. PICK x \in 0..MaxTools : tools' = [tools EXCEPT ![t] = x] /\ Emit(t, NextFinding(x))
    BY <1>1 DEF Investigate
  <2>2. /\ pc[t] = "investigate" /\ pc'[t] = "record" /\ tools'[t] = x /\ sent' = sent
        /\ kind'[t] = "tool" \/ kind'[t] = "investigation"
        /\ q.triage = r.triage /\ q.compliance = r.compliance /\ q.fused = r.fused
    BY <1>1, <1>a, <2>1 DEF Investigate, auditVars, Result, NextFinding
  <2>3. sent[t] = Searched(r, n) /\ n = 0 /\ Searching(r)
    BY <2>2 DEF Story, Tale
  <2>4. Searched(q, n) = Searched(r, n) /\ n + x <= MaxTools
    BY <1>b, <2>2, <2>3, TrailDepends
  <2>5. QED
    BY <2>2, <2>3, <2>4 DEF Story, Tale, Searching, Settled, Terminal
<1>2. CASE AfterTool(t)
  <2>1. /\ pc[t] = "cast" /\ kind[t] = "tool" /\ pc'[t] = "record"
        /\ tools'[t] = tools[t] - 1 /\ sent' = sent /\ q = r
        /\ kind'[t] = "tool" \/ kind'[t] = "investigation"
    BY <1>2, <1>a DEF AfterTool, auditVars, NextFinding
  <2>2. sent[t] = Searched(r, n) /\ n + (tools[t] - 1) <= MaxTools /\ Searching(r)
    BY <2>1 DEF Story, Tale
  <2>3. QED
    BY <2>1, <2>2 DEF Story, Tale, Searching, Settled, Terminal
<1>3. ASSUME Fuse(t), sent' = sent, sent[t] = Complied(r, n), r.triage = "escalate", ~r.fused
      PROVE  Story(t, n)'
  <2>1. CASE AccountOf[t] \in recent
    <3>1. /\ pc'[t] = "record" /\ kind'[t] = "fusion" /\ q.fused
          /\ q.triage = r.triage /\ q.compliance = r.compliance
      BY <1>3, <1>a, <2>1 DEF Fuse, Result
    <3>2. Complied(q, n) = Complied(r, n)
      BY <3>1, TrailDepends
    <3>3. QED
      BY <1>3, <3>1, <3>2 DEF Story, Tale, Settled, Terminal
  <2>2. CASE AccountOf[t] \notin recent
    <3>1. /\ pc'[t] = "record" /\ kind'[t] = "alert" /\ q.fused = r.fused
          /\ q.triage = r.triage /\ q.compliance = r.compliance
      BY <1>3, <1>a, <2>2 DEF Fuse, Result, WithAlert
    <3>2. Fused(q, n) = Fused(r, n) /\ Fused(r, n) = Complied(r, n)
      <4>1. Fused(q, n) = Fused(r, n)
        BY <3>1, TrailDepends
      <4>2. Fused(r, n) = Complied(r, n)
        BY <1>3, <1>b, TrailParts
      <4>3. QED
        BY <4>1, <4>2
    <3>3. QED
      BY <1>3, <3>1, <3>2 DEF Story, Tale, Told, Settled, Terminal
  <2>3. QED
    BY <2>1, <2>2
<1>4. CASE AfterInvestigation(t)
  <2>1. pc[t] = "cast" /\ kind[t] = "investigation" /\ sent' = sent
    BY <1>4 DEF AfterInvestigation, auditVars
  <2>2. sent[t] = Found(r, n) /\ Searching(r)
    BY <2>1 DEF Story, Tale
  <2>3. CASE result[t].case.recommend
    <3>1. pc'[t] = "comply" /\ q = r
      BY <1>4, <1>a, <2>3 DEF AfterInvestigation
    <3>2. QED
      BY <2>1, <2>2, <3>1 DEF Story, Tale, Settled, Terminal
  <2>4. CASE ~result[t].case.recommend
    <3>1. Fuse(t)
      BY <1>4, <2>4 DEF AfterInvestigation
    <3>2. Complied(r, n) = Found(r, n)
      BY <1>b, <2>2, TrailParts DEF Searching
    <3>3. QED
      BY <1>3, <2>1, <2>2, <3>1, <3>2 DEF Searching
  <2>5. QED
    BY <2>3, <2>4
<1>5. CASE Comply(t)
  <2>1. /\ pc[t] = "comply" /\ pc'[t] = "record" /\ kind'[t] = "compliance" /\ sent' = sent
        /\ q.triage = r.triage /\ q.compliance /\ q.fused = r.fused
    BY <1>5, <1>a DEF Comply, auditVars, Result
  <2>2. sent[t] = Found(r, n) /\ Searching(r)
    BY <2>1 DEF Story, Tale
  <2>3. Found(q, n) = Found(r, n)
    BY <2>1, TrailDepends
  <2>4. QED
    BY <2>1, <2>2, <2>3 DEF Story, Tale, Searching, Settled, Terminal
<1>6. CASE AfterCompliance(t)
  <2>1. pc[t] = "cast" /\ kind[t] = "compliance" /\ sent' = sent /\ Fuse(t)
    BY <1>6 DEF AfterCompliance, auditVars
  <2>2. sent[t] = Complied(r, n) /\ r.triage = "escalate" /\ ~r.fused
    BY <2>1 DEF Story, Tale
  <2>3. QED
    BY <1>3, <2>1, <2>2
<1>7. CASE AfterFusion(t)
  <2>1. /\ pc[t] = "cast" /\ kind[t] = "fusion" /\ pc'[t] = "record"
        /\ kind'[t] = "alert" /\ sent' = sent
        /\ q.triage = r.triage /\ q.compliance = r.compliance /\ q.fused = r.fused
        /\ q.alert = SeverityFor(r.case.score, r.fused) /\ q.case = r.case
    BY <1>7, <1>a DEF AfterFusion, auditVars, Result, WithAlert
  <2>2. sent[t] = Fused(r, n) /\ r.triage = "escalate" /\ r.fused
    BY <2>1 DEF Story, Tale
  <2>3. Fused(q, n) = Fused(r, n)
    BY <2>1, TrailDepends
  <2>4. q.alert = SeverityFor(q.case.score, TRUE)
    BY <1>c, <2>1, <2>2
  <2>5. QED
    BY <2>1, <2>2, <2>3, <2>4 DEF Story, Tale, Told, Settled, Terminal
<1>8. CASE AfterLastEvent(t)
  <2>1. /\ pc[t] = "cast" /\ kind[t] \in {"closed", "alert"} /\ pc'[t] = "record"
        /\ kind'[t] = "case.completed" /\ sent' = sent /\ q = r
    BY <1>8, <1>a DEF AfterLastEvent, auditVars
  <2>2. sent[t] = Closed(r, n) /\ Told(r, n)
    BY <2>1 DEF Story, Tale
  <2>3. QED
    BY <2>1, <2>2 DEF Story, Tale, Told, Settled, Terminal
<1>9. QED
  BY <1>1, <1>2, <1>4, <1>5, <1>6, <1>7, <1>8

\* A receipt is asked for: the trail grows by its kind.
LEMMA StoryRecords ==
  ASSUME TypeInv, NEW t \in Tx, NEW n \in 0..MaxTools, Story(t, n), Counting(t), Record(t)
  PROVE  \E m \in 0..MaxTools : Story(t, m)'
<1> DEFINE r == result[t]
           k == kind[t]
           s == sent[t]
<1>a. /\ pc[t] = "record" /\ pc'[t] = AfterReceipt(k) /\ k \in Kind
      /\ kind' = kind /\ tools' = tools /\ result' = result /\ payment' = payment
      /\ sent'[t] = Append(s, k)
  BY DEF Record, Suspend, Acknowledged, Raised, TypeInv, TypeOK
<1>b. n \in Nat /\ MaxTools \in Nat /\ 0 \in 0..MaxTools /\ tools[t] \in Nat
  BY PipelineAssumption DEF TypeInv, TypeOK
<1>1. CASE k \in {"case.opened", "rules", "prefilter"}
  <2>1. /\ k = "case.opened" => s = <<>> /\ Open(r)
        /\ k = "rules" => s = <<"case.opened">> /\ Open(r)
        /\ k = "prefilter" => s = <<"case.opened", "rules">> /\ Open(r)
    BY <1>a DEF Story, Tale
  <2>2. /\ k = "case.opened" => sent'[t] = <<"case.opened">>
        /\ k = "rules" => sent'[t] = <<"case.opened", "rules">>
        /\ k = "prefilter" => sent'[t] = Checked
    BY <1>a, <2>1, FirstThree
  <2>3. Open(r) /\ pc'[t] = (IF k = "case.opened" THEN "score" ELSE "cast")
    BY <1>1, <1>a, <2>1 DEF AfterReceipt
  <2>4. Story(t, n)'
    BY <1>1, <1>a, <2>2, <2>3 DEF Story, Tale, Open, Settled, Terminal
  <2>5. QED
    BY <2>4
<1>2. CASE k = "triage"
  <2>1. s = Checked /\ r.triage # "none" /\ ~r.compliance /\ ~r.fused
    BY <1>2, <1>a DEF Story, Tale
  <2>2. sent'[t] = Triaged(r) /\ pc'[t] = "cast"
    BY <1>2, <1>a, <1>b, <2>1, TrailParts DEF AfterReceipt
  <2>3. Story(t, n)'
    BY <1>2, <1>a, <2>1, <2>2 DEF Story, Tale, Settled, Terminal
  <2>4. QED
    BY <2>3
<1>3. CASE k = "tool"
  <2>1. s = Searched(r, n) /\ n + tools[t] <= MaxTools /\ Searching(r)
    BY <1>3, <1>a DEF Story, Tale
  <2>2. sent'[t] = Searched(r, n + 1) /\ pc'[t] = "cast"
    BY <1>3, <1>a, <1>b, <2>1, TrailParts DEF AfterReceipt
  <2>3. n + 1 \in 0..MaxTools /\ (n + 1) + (tools[t] - 1) <= MaxTools
    BY <1>3, <1>a, <1>b, <2>1 DEF Counting
  <2>4. Story(t, n + 1)'
    BY <1>3, <1>a, <2>1, <2>2, <2>3 DEF Story, Tale, Searching, Settled, Terminal
  <2>5. QED
    BY <2>3, <2>4
<1>4. CASE k = "investigation"
  <2>1. s = Searched(r, n) /\ Searching(r)
    BY <1>4, <1>a DEF Story, Tale
  <2>2. sent'[t] = Found(r, n) /\ pc'[t] = "cast"
    BY <1>4, <1>a, <1>b, <2>1, TrailParts DEF AfterReceipt, Searching
  <2>3. Story(t, n)'
    BY <1>4, <1>a, <2>1, <2>2 DEF Story, Tale, Searching, Settled, Terminal
  <2>4. QED
    BY <2>3
<1>5. CASE k = "compliance"
  <2>1. s = Found(r, n) /\ r.triage = "escalate" /\ r.compliance /\ ~r.fused
    BY <1>5, <1>a DEF Story, Tale
  <2>2. sent'[t] = Complied(r, n) /\ pc'[t] = "cast"
    BY <1>5, <1>a, <1>b, <2>1, TrailParts DEF AfterReceipt
  <2>3. Story(t, n)'
    BY <1>5, <1>a, <2>1, <2>2 DEF Story, Tale, Settled, Terminal
  <2>4. QED
    BY <2>3
<1>6. CASE k = "fusion"
  <2>1. s = Complied(r, n) /\ r.triage = "escalate" /\ r.fused
    BY <1>6, <1>a DEF Story, Tale
  <2>2. sent'[t] = Fused(r, n) /\ pc'[t] = "cast"
    BY <1>6, <1>a, <1>b, <2>1, TrailParts DEF AfterReceipt
  <2>3. Story(t, n)'
    BY <1>6, <1>a, <2>1, <2>2 DEF Story, Tale, Settled, Terminal
  <2>4. QED
    BY <2>3
<1>7. CASE k \in {"closed", "alert"}
  <2>1. /\ s = Fused(r, n) /\ Told(r, n)
        /\ k = "alert" <=> r.triage = "escalate"
    BY <1>7, <1>a DEF Story, Tale
  <2>2. sent'[t] = Closed(r, n) /\ pc'[t] = "cast"
    BY <1>7, <1>a, <1>b, <2>1, TrailParts, SMTT(30) DEF AfterReceipt
  <2>3. Story(t, n)'
    BY <1>7, <1>a, <2>1, <2>2 DEF Story, Tale, Told, Settled, Terminal
  <2>4. QED
    BY <2>3
<1>8. CASE k = "case.completed"
  <2>1. s = Closed(r, n) /\ Told(r, n)
    BY <1>8, <1>a DEF Story, Tale
  <2>2. sent'[t] = Append(Closed(r, n), "case.completed") /\ pc'[t] = "verify"
    BY <1>8, <1>a, <2>1 DEF AfterReceipt
  <2>3. Story(t, n)'
    BY <1>a, <2>1, <2>2 DEF Story, Tale, Told, Settled, Terminal
  <2>4. QED
    BY <2>3
\* The pipeline records no policy receipt: what is said of one is nothing.
<1>9. CASE k \in Action
  <2>1. pc'[t] = "cast"
    BY <1>9, <1>a DEF AfterReceipt, Action
  <2>2. Story(t, n)'
    BY <1>9, <1>a, <2>1 DEF Story, Tale, Action, Settled, Terminal
  <2>3. QED
    BY <2>2
<1>10. QED
  BY <1>1, <1>2, <1>3, <1>4, <1>5, <1>6, <1>7, <1>8, <1>9, <1>a DEF Kind

\* The payment control, the save and the answer.
LEMMA StoryConcludes ==
  ASSUME TypeInv, NEW t \in Tx, NEW n, Story(t, n), GateInv(t),
         Verify(t) \/ RecordPolicy(t) \/ VerifyPolicy(t) \/ Save(t) \/ Notify(t)
  PROVE  Story(t, n)'
<1> DEFINE r == result[t]
           c == Append(Closed(r, n), "case.completed")
<1> USE DEF Suspend
<1>a. /\ pc \in [Tx -> Pc] /\ payment \in [Tx -> Payment] /\ sent \in [Tx -> Seq(Kind)]
      /\ result' = result
  BY DEF TypeInv, TypeOK, Verify, RecordPolicy, VerifyPolicy, Save, Notify
<1>1. CASE Verify(t)
  <2>1. pc[t] = "verify" /\ pc'[t] = "policyAppend" /\ sent' = sent
    BY <1>1, <1>a DEF Verify, AskPolicy
  <2>2. sent[t] = c /\ Told(r, n)
    BY <2>1 DEF Story, Tale
  <2>3. QED
    BY <1>a, <2>1, <2>2 DEF Story, Tale, Settled, Terminal
<1>2. CASE RecordPolicy(t)
  <2>1. /\ pc[t] = "policyAppend" /\ pc'[t] \in {"policyVerify", "save"}
        /\ sent'[t] = Append(sent[t], kind[t]) /\ payment'[t].policy = payment[t].policy
    BY <1>2, <1>a DEF RecordPolicy, Acknowledged, Raised, Settle, Payment
  <2>2. sent[t] = c /\ Told(r, n)
    BY <2>1 DEF Story, Tale
  <2>3. kind[t] = payment[t].policy
    BY <2>1 DEF GateInv, Where
  <2>4. sent'[t] = Trail(r, n, payment[t].policy)
    BY <2>1, <2>2, <2>3 DEF Trail
  <2>5. QED
    BY <1>a, <2>1, <2>2, <2>4 DEF Story, Tale, Settled, Terminal
<1>3. CASE VerifyPolicy(t) \/ Save(t) \/ Notify(t)
  <2>1. /\ pc[t] \in {"policyVerify", "save", "notify"}
        /\ pc'[t] \in {"save", "notify", "replied"} /\ sent' = sent
        /\ payment'[t].policy = payment[t].policy
    BY <1>3, <1>a DEF VerifyPolicy, Settle, Save, Notify, auditVars, Payment
  <2>2. sent[t] = Trail(r, n, payment[t].policy) /\ Told(r, n)
    BY <2>1 DEF Story, Tale, Settled
  <2>3. QED
    BY <1>a, <2>1, <2>2 DEF Story, Tale, Settled, Terminal
<1>4. QED
  BY <1>1, <1>2, <1>3

\* A transaction that is cut short keeps its story where its case is saved.
LEMMA StoryEnds ==
  ASSUME NEW t \in Tx, NEW n, Story(t, n), Ends(t), Kept(t)'
  PROVE  Story(t, n)'
<1>1. /\ pc[t] = "notify" /\ pc'[t] \in {"failed", "lost"}
      /\ result'[t] = result[t] /\ payment'[t] = payment[t] /\ sent'[t] = sent[t]
  BY DEF Ends, Kept
<1>2. sent[t] = Trail(result[t], n, payment[t].policy) /\ Told(result[t], n)
  BY <1>1 DEF Story, Tale, Settled
<1>3. QED
  BY <1>1, <1>2 DEF Story, Tale, Settled, Terminal

LEMMA TrailStep ==
  ASSUME TrailInv, IInv', [Next]_vars
  PROVE  TrailInv'
<1>a. TypeInv /\ \A t \in Tx : GateInv(t) /\ Counting(t)
  BY DEF TrailInv, IInv, TypeInv
<1> SUFFICES ASSUME NEW t \in Tx, Kept(t)'
             PROVE  \E n \in 0..MaxTools : Story(t, n)'
  BY DEF TrailInv
<1>1. ASSUME Kept(t), pc'[t] = pc[t], kind'[t] = kind[t], tools'[t] = tools[t],
             result'[t] = result[t], sent'[t] = sent[t], payment'[t] = payment[t]
      PROVE  \E n \in 0..MaxTools : Story(t, n)'
  BY <1>1, StoryFrame DEF TrailInv
<1>2. ASSUME Untouched(t) PROVE \E n \in 0..MaxTools : Story(t, n)'
  <2>1. Kept(t)
    BY <1>2 DEF Untouched, Kept
  <2>2. QED
    BY <1>1, <1>2, <2>1 DEF Untouched
<1>3. ASSUME NEW u \in Tx, Start(u) \/ Advance(u) \/ Fail(u)
      PROVE  \E n \in 0..MaxTools : Story(t, n)'
  <2>1. CASE u # t
    BY <1>a, <1>2, <1>3, <2>1, OthersUntouched
  <2>2. CASE u = t
    <3>1. pc[t] \notin {"failed", "lost"}
      BY <1>3, <2>2
      DEF Advance, Start, Record, Score, AfterRules, AfterPrefilter, Triage,
          AfterTriage, Investigate, AfterTool, AfterInvestigation, Comply,
          AfterCompliance, AfterFusion, AfterLastEvent, Cast, Verify, RecordPolicy,
          VerifyPolicy, Save, Notify, Fail, CanRaise
    <3>2. PICK n \in 0..MaxTools : Story(t, n)
      BY <3>1 DEF TrailInv, Kept
    <3>3. CASE Fail(t)
      <4>1. t \in saved => pc[t] = "notify"
        BY <1>a, <3>3 DEF Fail, CanRaise, GateInv, Where, Terminal
      <4>2. Ends(t)
        BY <1>a, <3>3, <4>1
        DEF Fail, Ends, Forget, Unsaved, Suspend, auditVars, TypeInv, TypeOK
      <4>3. QED
        BY <3>2, <4>2, StoryEnds
    <3>4. CASE Start(t) \/ Advance(t)
      BY <1>a, <3>2, <3>4, StoryOpens, StoryInvestigates, StoryRecords, StoryConcludes
      DEF Advance
    <3>5. QED
      BY <1>3, <2>2, <3>3, <3>4
  <2>3. QED
    BY <2>1, <2>2
<1>4. CASE Crash
  <2>1. CASE Running(t)
    <3>1. t \in saved => pc[t] = "notify"
      BY <1>a, <2>1 DEF Running, GateInv, Where, Terminal
    <3>2. t \in saved
      BY <1>4, <2>1 DEF Crash, Kept
    <3>3. /\ pc'[t] = "lost" /\ result'[t] = result[t] /\ payment'[t] = payment[t]
          /\ sent'[t] = sent[t]
      BY <1>4, <2>1, <3>1, <3>2 DEF Crash, Forget, Unsaved, Awaiting
    <3>4. PICK n \in 0..MaxTools : Story(t, n)
      BY <3>1, <3>2 DEF TrailInv, Kept
    <3>5. sent[t] = Trail(result[t], n, payment[t].policy) /\ Told(result[t], n)
      BY <3>1, <3>2, <3>4 DEF Story, Tale, Settled
    <3>6. Story(t, n)'
      BY <3>3, <3>5 DEF Story, Tale, Settled, Terminal
    <3>7. QED
      BY <3>6
  <2>2. CASE ~Running(t)
    <3>1. /\ pc'[t] = pc[t] /\ kind'[t] = kind[t] /\ tools'[t] = tools[t]
          /\ result'[t] = result[t] /\ payment'[t] = payment[t] /\ sent'[t] = sent[t]
          /\ saved' = saved
      BY <1>4, <2>2 DEF Crash, Forget, Unsaved, Running, Awaiting, Terminal
    <3>2. Kept(t)
      BY <3>1 DEF Kept
    <3>3. QED
      BY <1>1, <3>1, <3>2
  <2>3. QED
    BY <2>1, <2>2
<1>5. CASE AppendLate \/ ChainShifts \/ (\E a \in Account : SecurityEvent(a) \/ EventExpires(a))
           \/ UNCHANGED vars
  <2>1. UNCHANGED <<pipelineVars, sent>>
    BY <1>5 DEF AppendLate, ChainShifts, SecurityEvent, EventExpires,
                pipelineVars, auditVars, vars
  <2>2. Kept(t)
    BY <2>1 DEF pipelineVars, Kept
  <2>3. QED
    BY <1>1, <2>1, <2>2 DEF pipelineVars
<1>6. QED
  BY <1>3, <1>4, <1>5 DEF Next, Environment

\* The trail of a decided case says what its result says, and a fused alert on a
\* serious risk is blocked, although security events come and go meanwhile.
THEOREM TrailTold == Spec => []TrailTellsTheCase
<1>1. Init => TrailInv
  <2>1. ASSUME Init, NEW t \in Tx PROVE Story(t, 0)
    BY <2>1 DEF Init, Story, Tale, Open, NewResult, Settled, Terminal
  <2>2. 0 \in 0..MaxTools
    BY PipelineAssumption
  <2>3. QED
    BY <2>1, <2>2, InitTypes, InitGate DEF TrailInv, IInv
<1>2. TrailInv /\ IInv' /\ [Next]_vars => TrailInv'
  BY TrailStep
<1>3. TrailInv => TrailTellsTheCase
  <2> SUFFICES ASSUME TrailInv, NEW t \in Tx, payment[t].action # "none"
               PROVE  /\ \E n \in 0..MaxTools :
                           /\ n > 0 => result[t].triage = "escalate"
                           /\ sent[t] = Trail(result[t], n, payment[t].policy)
                      /\ (result[t].fused /\ result[t].case.score >= 50)
                           => payment[t].action = "block"
    BY DEF TrailTellsTheCase
  <2>1. Where(t) /\ Forgotten(t) /\ Judged(t) /\ Decision(t) /\ Kept(t)
    BY DEF TrailInv, IInv, GateInv, Forgotten, NewPayment
  <2>2. pc[t] \in Settled
    BY <2>1 DEF Where
  <2>3. PICK n \in 0..MaxTools : Story(t, n)
    BY <2>1 DEF TrailInv
  <2>4. sent[t] = Trail(result[t], n, payment[t].policy) /\ Told(result[t], n)
    BY <2>2, <2>3 DEF Story, Tale
  <2>5. n > 0 => result[t].triage = "escalate"
    BY <2>4 DEF Told
  <2>6. (result[t].fused /\ result[t].case.score >= 50) => payment[t].action = "block"
    <3>1. ASSUME result[t].fused, result[t].case.score >= 50
          PROVE  RiskOf(result[t]) = "critical"
      BY <2>4, <3>1 DEF Told, SeverityFor, RiskOf
    <3>2. QED
      BY <2>1, <3>1 DEF Judged, Decision
  <2>7. QED
    BY <2>4, <2>5, <2>6
<1>4. QED
  BY <1>1, <1>2, <1>3, GateInvariance, PTL DEF Spec

=============================================================================
