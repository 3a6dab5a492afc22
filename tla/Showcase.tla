------------------------------- MODULE Showcase -------------------------------
(***************************************************************************)
(* The public showcase (dashboard-web): the pipeline in TypeScript         *)
(* (src/lib/orchestrator.ts), its audit chain (src/lib/audit.ts) and case  *)
(* list (src/lib/recentCases.ts) in the memory of one warm instance, and   *)
(* the page that runs it and shows both (src/lib/hooks/useLiveFeed.ts).    *)
(*                                                                         *)
(* An action is what the event loop does between two awaits. An append     *)
(* reads the end of the chain, awaits the digest of its entry, and pushes  *)
(* it; the agents await the model; the page awaits its answers.            *)
(***************************************************************************)
EXTENDS Integers, Sequences, FiniteSets

CONSTANTS
  Run,           \* requests to /api/showcase/run, each from one triggerRun
  RiskScore,     \* what case files say
  Capacity,      \* cases the list keeps: 100
  Limit,         \* cases an answer carries: 50
  MaxColdStarts  \* bound

ASSUME ShowcaseAssumption ==
  /\ RiskScore \subseteq 0..100
  /\ Capacity \in Nat \ {0} /\ Limit \in 1..Capacity
  /\ MaxColdStarts \in Nat

VARIABLES
  entries,     \* the chain
  cases,       \* runs, the newest first
  pc,          \* what each run awaits
  pending,     \* the entry each run has prepared and not pushed
  result,      \* what each run has found out
  snapshot,    \* the case list on its way to the page, of each run
  verdict,     \* the verification on its way to the page
  list, panel, \* what the page shows
  finished,    \* history: runs in the order they finished since the last cold start
  coldStarts   \* bound

serverVars == <<entries, cases, pending, result, finished>>
pageVars == <<snapshot, verdict, list, panel>>
vars == <<serverVars, pageVars, pc, coldStarts>>

Pc == {"idle", "opening", "triage", "investigation", "compliance", "closing",
       "answered", "listSent", "listed", "verdictSent", "ended", "failed", "lost"}
Stage == {"none", "closed", "triage", "investigation", "compliance"}
NoRisk == -1
Severity == {"none", "low", "medium", "high"}
Result == [stage : Stage, risk : RiskScore \cup {NoRisk}, alert : Severity]

\* timestamp and amount belong to the run.
Content == [type : {"case.opened", "case.closed"}, run : Run,
            stage : Stage, risk : RiskScore \cup {NoRisk}]
Hash == Seq(Nat \X Content)
Entry == [seq : Nat, content : Content, prev : Hash, hash : Hash]
Nothing == <<>>

Goto(r, p) == pc' = [pc EXCEPT ![r] = p]

-----------------------------------------------------------------------------
(* The chain *)

GenesisHash == <<>>

\* A hash stands for all it covers: its entry, and what its prev covers.
ComputeHash(seq, content, prev) == Append(prev, <<seq, content>>)

\* An append up to its await, on the chain es.
Prepared(es, content) ==
  LET n == Len(es)
      prev == IF n = 0 THEN GenesisHash ELSE es[n].hash
  IN  [seq |-> n + 1, content |-> content, prev |-> prev,
       hash |-> ComputeHash(n + 1, content, prev)]

\* Mutant: the hash of an entry is checked and its link is not.
Breaks_HashOnly(es, i) == es[i].hash # ComputeHash(es[i].seq, es[i].content, es[i].prev)

Breaks(es, i) ==
  \/ es[i].prev # IF i = 1 THEN GenesisHash ELSE es[i - 1].hash
  \/ es[i].hash # ComputeHash(es[i].seq, es[i].content, es[i].prev)

\* verifyAuditChain awaits digests too, and goes on to the entries pushed meanwhile;
\* entries never change, so it says what the chain is when it ends.
Verdict(es) ==
  IF \E i \in 1..Len(es) : Breaks(es, i)
  THEN LET first == CHOOSE i \in 1..Len(es) :
                      Breaks(es, i) /\ \A j \in 1..(i - 1) : ~Breaks(es, j)
       IN  [valid |-> FALSE, checked |-> es[first].seq, broken |-> es[first].seq]
  ELSE [valid |-> TRUE, checked |-> Len(es), broken |-> 0]

NoVerdict == [valid |-> TRUE, checked |-> 0, broken |-> 0]

-----------------------------------------------------------------------------
(* The pipeline of one request *)

Opened(r) == [type |-> "case.opened", run |-> r, stage |-> "none", risk |-> NoRisk]
Closed(r, res) == [type |-> "case.closed", run |-> r, stage |-> res.stage, risk |-> res.risk]

SeverityFor(risk) == IF risk >= 70 THEN "high" ELSE IF risk >= 40 THEN "medium" ELSE "low"

\* The result is complete: its case.closed is prepared on the chain es.
Close(r, es, res) ==
  /\ result' = [result EXCEPT ![r] = res]
  /\ pending' = [pending EXCEPT ![r] = <<Prepared(es, Closed(r, res))>>]
  /\ Goto(r, "closing")

Post(r) ==
  /\ pc[r] = "idle"
  /\ pending' = [pending EXCEPT ![r] = <<Prepared(entries, Opened(r))>>]
  /\ Goto(r, "opening")
  /\ UNCHANGED <<entries, cases, result, finished, pageVars, coldStarts>>

\* The digest of case.opened is there; rules and prefilter decide about escalation.
Open(r) ==
  LET es == Append(entries, pending[r][1]) IN
  /\ pc[r] = "opening"
  /\ entries' = es
  /\ \/ Close(r, es, [stage |-> "closed", risk |-> NoRisk, alert |-> "none"])
     \/ /\ pending' = [pending EXCEPT ![r] = Nothing]
        /\ result' = [result EXCEPT ![r].stage = "closed"]
        /\ Goto(r, "triage")
  /\ UNCHANGED <<cases, finished, pageVars, coldStarts>>

Triage(r) ==
  /\ pc[r] = "triage"
  /\ \/ Close(r, entries, [result[r] EXCEPT !.stage = "closed"])
     \/ /\ result' = [result EXCEPT ![r].stage = "triage"]
        /\ Goto(r, "investigation")
        /\ UNCHANGED pending
  /\ UNCHANGED <<entries, cases, finished, pageVars, coldStarts>>

WithAlert(res) == [res EXCEPT !.alert = SeverityFor(res.risk)]

Investigate(r) ==
  /\ pc[r] = "investigation"
  /\ \E risk \in RiskScore :
       LET res == [result[r] EXCEPT !.stage = "investigation", !.risk = risk] IN
       \/ Close(r, entries, WithAlert(res))
       \/ /\ result' = [result EXCEPT ![r] = res]
          /\ Goto(r, "compliance")
          /\ UNCHANGED pending
  /\ UNCHANGED <<entries, cases, finished, pageVars, coldStarts>>

Comply(r) ==
  /\ pc[r] = "compliance"
  /\ Close(r, entries, WithAlert([result[r] EXCEPT !.stage = "compliance"]))
  /\ UNCHANGED <<entries, cases, finished, pageVars, coldStarts>>

\* Mutant: the newest case comes last, and is cut off when the list is full.
Recorded_Appended(r) ==
  LET s == Append(cases, r) IN SubSeq(s, 1, IF Len(s) > Capacity THEN Capacity ELSE Len(s))

Recorded(r) ==
  LET s == <<r>> \o cases IN SubSeq(s, 1, IF Len(s) > Capacity THEN Capacity ELSE Len(s))

\* Mutant: the case is answered before its case.closed is pushed.
Finish_NotAwaited(r) ==
  /\ pc[r] = "closing"
  /\ pending' = [pending EXCEPT ![r] = Nothing]
  /\ cases' = Recorded(r)
  /\ finished' = Append(finished, r)
  /\ Goto(r, "answered")
  /\ UNCHANGED <<entries, result, pageVars, coldStarts>>

\* The digest of case.closed is there; the rest of the handler is done at once.
Finish(r) ==
  /\ pc[r] = "closing"
  /\ entries' = Append(entries, pending[r][1])
  /\ pending' = [pending EXCEPT ![r] = Nothing]
  /\ cases' = Recorded(r)
  /\ finished' = Append(finished, r)
  /\ Goto(r, "answered")
  /\ UNCHANGED <<result, pageVars, coldStarts>>

\* An agent throws: 500, and the page does nothing with it.
RunFails(r) ==
  /\ pc[r] \in {"triage", "investigation", "compliance"}
  /\ Goto(r, "failed")
  /\ UNCHANGED <<serverVars, pageVars, coldStarts>>

-----------------------------------------------------------------------------
(* The page: triggerRun after its answer *)

ServeList(r) ==
  /\ pc[r] = "answered"
  /\ snapshot' = [snapshot EXCEPT ![r] =
                    SubSeq(cases, 1, IF Len(cases) > Limit THEN Limit ELSE Len(cases))]
  /\ Goto(r, "listSent")
  /\ UNCHANGED <<serverVars, verdict, list, panel, coldStarts>>

ShowList(r) ==
  /\ pc[r] = "listSent"
  /\ list' = snapshot[r]
  /\ snapshot' = [snapshot EXCEPT ![r] = <<>>]
  /\ Goto(r, "listed")
  /\ UNCHANGED <<serverVars, verdict, panel, coldStarts>>

ServeVerdict(r) ==
  /\ pc[r] = "listed"
  /\ verdict' = [verdict EXCEPT ![r] = Verdict(entries)]
  /\ Goto(r, "verdictSent")
  /\ UNCHANGED <<serverVars, snapshot, list, panel, coldStarts>>

ShowVerdict(r) ==
  /\ pc[r] = "verdictSent"
  /\ panel' = verdict[r]
  /\ verdict' = [verdict EXCEPT ![r] = NoVerdict]
  /\ Goto(r, "ended")
  /\ UNCHANGED <<serverVars, snapshot, list, coldStarts>>

\* Each of the two requests is best effort.
RefreshFails(r) ==
  /\ \/ pc[r] \in {"answered", "listSent"} /\ Goto(r, "listed")
     \/ pc[r] \in {"listed", "verdictSent"} /\ Goto(r, "ended")
  /\ snapshot' = [snapshot EXCEPT ![r] = <<>>]
  /\ verdict' = [verdict EXCEPT ![r] = NoVerdict]
  /\ UNCHANGED <<serverVars, list, panel, coldStarts>>

-----------------------------------------------------------------------------
\* The instance goes away with its memory, and a new one answers.
AtServer(r) == pc[r] \in {"opening", "triage", "investigation", "compliance", "closing"}

ColdStart ==
  /\ coldStarts < MaxColdStarts
  /\ coldStarts' = coldStarts + 1
  /\ entries' = <<>> /\ cases' = <<>> /\ finished' = <<>>
  /\ pending' = [r \in Run |-> Nothing]
  /\ pc' = [r \in Run |-> IF AtServer(r) THEN "lost" ELSE pc[r]]
  /\ UNCHANGED <<result, pageVars>>

Init ==
  /\ entries = <<>> /\ cases = <<>> /\ finished = <<>>
  /\ pc = [r \in Run |-> "idle"]
  /\ pending = [r \in Run |-> Nothing]
  /\ result = [r \in Run |-> [stage |-> "none", risk |-> NoRisk, alert |-> "none"]]
  /\ snapshot = [r \in Run |-> <<>>]
  /\ verdict = [r \in Run |-> NoVerdict]
  /\ list = <<>> /\ panel = NoVerdict
  /\ coldStarts = 0

Next ==
  \/ \E r \in Run :
       \/ Post(r) \/ Open(r) \/ Triage(r) \/ Investigate(r) \/ Comply(r)
       \/ Finish(r) \/ RunFails(r)
       \/ ServeList(r) \/ ShowList(r) \/ ServeVerdict(r) \/ ShowVerdict(r)
       \/ RefreshFails(r)
  \/ ColdStart

Spec == Init /\ [][Next]_vars

-----------------------------------------------------------------------------
(* Properties *)

VerdictType == [valid : BOOLEAN, checked : Nat, broken : Nat]

\* Every variable has its type, and the case list holds at most its capacity.
TypeOK ==
  /\ entries \in Seq(Entry)
  /\ cases \in Seq(Run) /\ Len(cases) <= Capacity
  /\ pc \in [Run -> Pc]
  /\ pending \in [Run -> Seq(Entry)]
  /\ \A r \in Run : Len(pending[r]) = IF pc[r] \in {"opening", "closing"} THEN 1 ELSE 0
  /\ result \in [Run -> Result]
  /\ snapshot \in [Run -> Seq(Run)] /\ verdict \in [Run -> VerdictType]
  /\ list \in Seq(Run) /\ panel \in VerdictType
  /\ finished \in Seq(Run)
  /\ coldStarts \in 0..MaxColdStarts

InOrder == \A i \in 1..Len(entries) : entries[i].seq = i

\* The verification compares links and recomputes hashes and never looks at the
\* numbers; still a chain is valid exactly when its numbers are 1, 2, 3 and so on,
\* that is when no two appends overlapped (audit.ts:44-78).
ValidExactlyInOrder == Verdict(entries).valid <=> InOrder

\* What an invalid verification reports is a number that two entries share: two
\* appends that read the same end of the chain, and nothing else, break it
\* (audit.ts:45-51, 72-74).
SharedNumberReported ==
  LET v == Verdict(entries) IN
  ~v.valid => \E i, j \in 1..Len(entries) :
                i < j /\ entries[i].seq = v.broken /\ entries[j].seq = v.broken

Places(r, type) ==
  {i \in 1..Len(entries) : entries[i].content.run = r /\ entries[i].content.type = type}

\* A run that was answered has both its receipts on the chain of its instance, each
\* once and in order, and the second tells its result, broken as the chain may be
\* (orchestrator.ts:45-115, route.ts:18-19).
AnsweredIsRecorded ==
  \A n \in 1..Len(finished) : LET r == finished[n] IN
    \E i, j \in 1..Len(entries) :
      /\ i < j
      /\ Places(r, "case.opened") = {i} /\ Places(r, "case.closed") = {j}
      /\ entries[j].content = Closed(r, result[r])

\* The list a run fetches after its answer shows that run, or is full of runs that
\* finished after it; only a cold start takes it away (recentCases.ts:16-23,
\* useLiveFeed.ts:104-112).
OwnRunListed ==
  \A r \in Run : \A n \in 1..Len(finished) :
    pc[r] = "listSent" /\ finished[n] = r =>
      LET s == snapshot[r] IN
      \/ \E k \in 1..Len(s) : s[k] = r
      \/ /\ Len(s) = Limit
         /\ \A k \in 1..Limit : \E m \in (n + 1)..Len(finished) : finished[m] = s[k]

=============================================================================
