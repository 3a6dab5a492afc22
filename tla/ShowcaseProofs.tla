---------------------------- MODULE ShowcaseProofs ----------------------------
(***************************************************************************)
(* Theorems about Showcase, for any number of runs, cold starts and cases: *)
(* when its chain verifies, that an answered run left its receipts, and    *)
(* that a run finds itself in its list.                                    *)
(***************************************************************************)
EXTENDS Showcase, SequenceTheorems, TLAPS

\* Entry e was prepared when the chain es had n - 1 entries or less.
Fits(es, n, e) ==
  /\ e.seq \in 1..n
  /\ e.prev = IF e.seq = 1 THEN GenesisHash ELSE es[e.seq - 1].hash
  /\ e.hash = ComputeHash(e.seq, e.content, e.prev)

Unbroken(es, n) == \A i \in 1..n : ~Breaks(es, i)

\* A broken chain has a first broken entry.
HasFirst(es) ==
  (\E i \in 1..Len(es) : Breaks(es, i)) =>
    \E i \in 1..Len(es) : Breaks(es, i) /\ Unbroken(es, i - 1)

Linked(es) == \A i \in 1..Len(es) : Fits(es, i, es[i])

\* A chain that is not broken up to n counts up to n, and its hashes grow with it.
Counted(es, n) == es[n].seq = n /\ Len(es[n].hash) = n
Counting(es) == \A n \in 1..Len(es) : Unbroken(es, n) => Counted(es, n)

Chain(es) == Linked(es) /\ Counting(es) /\ HasFirst(es)

ChainInv ==
  /\ Chain(entries)
  /\ \A r \in Run : pending[r] # Nothing => Fits(entries, Len(entries) + 1, pending[r][1])

-----------------------------------------------------------------------------
(* Types *)

LEMMA PreparedType ==
  ASSUME NEW es \in Seq(Entry), NEW c \in Content
  PROVE  Prepared(es, c) \in Entry
<1> DEFINE prev == IF Len(es) = 0 THEN GenesisHash ELSE es[Len(es)].hash
<1>1. prev \in Hash
  <2>1. CASE Len(es) = 0
    BY <2>1 DEF GenesisHash, Hash
  <2>2. CASE Len(es) # 0
    <3>1. es[Len(es)] \in Entry
      BY <2>2
    <3>2. QED
      BY <2>2, <3>1 DEF Entry
  <2>3. QED
    BY <2>1, <2>2
<1>2. Len(es) + 1 \in Nat
  OBVIOUS
<1>3. <<Len(es) + 1, c>> \in Nat \X Content
  BY <1>2
<1>4. ComputeHash(Len(es) + 1, c, prev) \in Hash
  BY <1>1, <1>3 DEF ComputeHash, Hash
<1>5. QED
  BY <1>1, <1>2, <1>4 DEF Prepared, Entry

LEMMA ContentTypes ==
  /\ \A r \in Run : Opened(r) \in Content
  /\ \A r \in Run, res \in Result : Closed(r, res) \in Content
<1>1. NoRisk \in RiskScore \cup {NoRisk}
  OBVIOUS
<1>2. \A r \in Run : Opened(r) \in Content
  BY <1>1 DEF Opened, Content, Stage
<1>3. \A r \in Run, res \in Result : Closed(r, res) \in Content
  BY DEF Closed, Content, Result
<1>4. QED
  BY <1>2, <1>3

LEMMA ResultTypes ==
  ASSUME NEW res \in Result
  PROVE  /\ \A s \in Stage : [res EXCEPT !.stage = s] \in Result
         /\ \A risk \in RiskScore :
              [res EXCEPT !.stage = "investigation", !.risk = risk] \in Result
         /\ WithAlert(res) \in Result
         /\ [stage |-> "closed", risk |-> NoRisk, alert |-> "none"] \in Result
<1>1. SeverityFor(res.risk) \in Severity
  BY DEF SeverityFor, Severity
<1>2. QED
  BY <1>1 DEF Result, WithAlert, Stage, Severity

\* Closing a run leaves types as they were.
LEMMA CloseTypes ==
  ASSUME TypeOK, NEW r \in Run, NEW es \in Seq(Entry), NEW res \in Result,
         pc[r] # "idle", Close(r, es, res)
  PROVE  /\ pc' \in [Run -> Pc] /\ pending' \in [Run -> Seq(Entry)]
         /\ result' \in [Run -> Result]
         /\ \A q \in Run : Len(pending'[q]) = IF pc'[q] \in {"opening", "closing"} THEN 1 ELSE 0
<1>1. Prepared(es, Closed(r, res)) \in Entry
  BY ContentTypes, PreparedType
<1> DEFINE p == Prepared(es, Closed(r, res))
<1> HIDE DEF p
<1>2. <<p>> \in Seq(Entry) /\ Len(<<p>>) = 1
  BY <1>1 DEF p
<1>3. pending' = [pending EXCEPT ![r] = <<p>>] /\ pc' = [pc EXCEPT ![r] = "closing"]
      /\ result' = [result EXCEPT ![r] = res]
  BY DEF Close, Goto, p
<1>4. pending \in [Run -> Seq(Entry)] /\ pc \in [Run -> Pc] /\ result \in [Run -> Result]
      /\ \A q \in Run : Len(pending[q]) = IF pc[q] \in {"opening", "closing"} THEN 1 ELSE 0
  BY DEF TypeOK
<1>5. "closing" \in Pc
  BY DEF Pc
<1>6. QED
  BY <1>2, <1>3, <1>4, <1>5

\* The part of TypeOK that the steps of a run at the server keep.
LEMMA WaitTypes ==
  ASSUME TypeOK, NEW r \in Run, NEW p \in Pc, p \notin {"opening", "closing"},
         Goto(r, p),
         \/ pending' = [pending EXCEPT ![r] = Nothing]
         \/ pc[r] \notin {"opening", "closing"} /\ UNCHANGED pending
  PROVE  /\ pc' \in [Run -> Pc] /\ pending' \in [Run -> Seq(Entry)]
         /\ \A q \in Run : Len(pending'[q]) = IF pc'[q] \in {"opening", "closing"} THEN 1 ELSE 0
<1>1. pending \in [Run -> Seq(Entry)] /\ pc \in [Run -> Pc]
      /\ \A q \in Run : Len(pending[q]) = IF pc[q] \in {"opening", "closing"} THEN 1 ELSE 0
  BY DEF TypeOK
<1>2. Nothing \in Seq(Entry) /\ Len(Nothing) = 0
  BY DEF Nothing
<1>3. pc' = [pc EXCEPT ![r] = p]
  BY DEF Goto
<1>4. QED
  BY <1>1, <1>2, <1>3

LEMMA CutType ==
  ASSUME NEW s \in Seq(Run), NEW n \in Nat
  PROVE  LET t == SubSeq(s, 1, IF Len(s) > n THEN n ELSE Len(s))
         IN  t \in Seq(Run) /\ Len(t) \in Nat /\ Len(t) <= n
<1> DEFINE m == IF Len(s) > n THEN n ELSE Len(s)
<1>1. m \in Nat /\ m <= n /\ m <= Len(s) /\ Len(s) \in Nat
  OBVIOUS
<1>2. \A i \in 1..m : s[i] \in Run
  BY <1>1
<1> HIDE DEF m
<1>3. SubSeq(s, 1, m) \in Seq(Run) /\ Len(SubSeq(s, 1, m)) = IF 1 <= m THEN m - 1 + 1 ELSE 0
  BY <1>1, <1>2, SubSeqProperties
<1>4. Len(SubSeq(s, 1, m)) = m
  BY <1>1, <1>3
<1>5. QED
  BY <1>1, <1>3, <1>4 DEF m

LEMMA VerdictTypes ==
  ASSUME NEW es \in Seq(Entry), HasFirst(es)
  PROVE  Verdict(es) \in VerdictType
<1>1. CASE \E i \in 1..Len(es) : Breaks(es, i)
  <2> DEFINE first == CHOOSE i \in 1..Len(es) :
                        Breaks(es, i) /\ \A j \in 1..(i - 1) : ~Breaks(es, j)
  <2>1. first \in 1..Len(es)
    BY <1>1 DEF HasFirst, Unbroken
  <2>2. Verdict(es) = [valid |-> FALSE, checked |-> es[first].seq, broken |-> es[first].seq]
    BY <1>1 DEF Verdict
  <2> HIDE DEF first
  <2>3. es[first] \in Entry
    BY <2>1
  <2>4. es[first].seq \in Nat
    BY <2>3 DEF Entry
  <2>5. QED
    BY <2>2, <2>4 DEF VerdictType
<1>2. CASE ~\E i \in 1..Len(es) : Breaks(es, i)
  <2>1. Len(es) \in Nat
    OBVIOUS
  <2>2. QED
    BY <1>2, <2>1 DEF Verdict, VerdictType
<1>3. QED
  BY <1>1, <1>2

LEMMA InitTypes == Init => TypeOK
<1> SUFFICES ASSUME Init PROVE TypeOK
  OBVIOUS
<1>1. NoVerdict \in VerdictType
  BY DEF NoVerdict, VerdictType
<1>2. [stage |-> "none", risk |-> NoRisk, alert |-> "none"] \in Result
  BY DEF Result, Stage, Severity
<1>3. "idle" \in Pc
  BY DEF Pc
<1>4. \A S : <<>> \in Seq(S)
  OBVIOUS
<1>5. Capacity \in Nat /\ MaxColdStarts \in Nat
  BY ShowcaseAssumption
<1>6. QED
  BY <1>1, <1>2, <1>3, <1>4, <1>5 DEF Init, TypeOK, Nothing

\* An entry that was prepared is on the chain after its digest.
LEMMA PushTypes ==
  ASSUME TypeOK, NEW r \in Run, pc[r] \in {"opening", "closing"}
  PROVE  Append(entries, pending[r][1]) \in Seq(Entry) /\ pending[r][1] \in Entry
<1>1. pending[r] \in Seq(Entry) /\ Len(pending[r]) = 1
  BY DEF TypeOK
<1>2. pending[r][1] \in Entry
  BY <1>1
<1>3. QED
  BY <1>2 DEF TypeOK

LEMMA ServerTypes ==
  ASSUME TypeOK, NEW r \in Run,
         Post(r) \/ Open(r) \/ Triage(r) \/ Investigate(r) \/ Comply(r) \/ Finish(r) \/ RunFails(r)
  PROVE  TypeOK'
<1>a. result[r] \in Result
  BY DEF TypeOK
<1>b. /\ [stage |-> "closed", risk |-> NoRisk, alert |-> "none"] \in Result
      /\ \A s \in Stage : [result[r] EXCEPT !.stage = s] \in Result
      /\ \A s \in Stage : WithAlert([result[r] EXCEPT !.stage = s]) \in Result
      /\ \A risk \in RiskScore :
           /\ [result[r] EXCEPT !.stage = "investigation", !.risk = risk] \in Result
           /\ WithAlert([result[r] EXCEPT !.stage = "investigation", !.risk = risk]) \in Result
  <2>1. \A res \in Result : WithAlert(res) \in Result
    BY ResultTypes
  <2>2. \A s \in Stage : [result[r] EXCEPT !.stage = s] \in Result
    BY <1>a, ResultTypes
  <2>3. \A risk \in RiskScore :
          [result[r] EXCEPT !.stage = "investigation", !.risk = risk] \in Result
    BY <1>a, ResultTypes
  <2>4. [stage |-> "closed", risk |-> NoRisk, alert |-> "none"] \in Result
    BY <1>a, ResultTypes
  <2>5. QED
    BY <2>1, <2>2, <2>3, <2>4, Zenon
<1>c. {"closed", "triage", "compliance"} \subseteq Stage
  BY DEF Stage
<1>d. entries \in Seq(Entry)
  BY DEF TypeOK
<1>1. CASE Post(r)
  <2>1. Prepared(entries, Opened(r)) \in Entry
    BY <1>d, ContentTypes, PreparedType
  <2> DEFINE p == Prepared(entries, Opened(r))
  <2> HIDE DEF p
  <2>2. <<p>> \in Seq(Entry) /\ Len(<<p>>) = 1
    BY <2>1 DEF p
  <2>3. pending' = [pending EXCEPT ![r] = <<p>>] /\ pc' = [pc EXCEPT ![r] = "opening"]
    BY <1>1 DEF Post, Goto, p
  <2>4. "opening" \in Pc
    BY DEF Pc
  <2>5. pending' \in [Run -> Seq(Entry)] /\ pc' \in [Run -> Pc]
        /\ \A q \in Run : Len(pending'[q]) = IF pc'[q] \in {"opening", "closing"} THEN 1 ELSE 0
    BY <2>2, <2>3, <2>4 DEF TypeOK
  <2>6. QED
    BY <1>1, <2>5 DEF Post, TypeOK, pageVars
<1>2. CASE Open(r)
  <2> DEFINE es == Append(entries, pending[r][1])
             res == [stage |-> "closed", risk |-> NoRisk, alert |-> "none"]
  <2>1. es \in Seq(Entry) /\ entries' = es /\ pc[r] # "idle"
    BY <1>2, PushTypes DEF Open
  <2>2. \/ Close(r, es, res)
        \/ /\ pending' = [pending EXCEPT ![r] = Nothing]
           /\ result' = [result EXCEPT ![r] = [result[r] EXCEPT !.stage = "closed"]]
           /\ Goto(r, "triage")
    BY <1>2 DEF Open, TypeOK
  <2>3. res \in Result /\ [result[r] EXCEPT !.stage = "closed"] \in Result
    BY <1>b, <1>c
  <2>4. UNCHANGED <<cases, finished, snapshot, verdict, list, panel, coldStarts>>
    BY <1>2 DEF Open, pageVars
  <2> HIDE DEF es, res
  <2>5. /\ pc' \in [Run -> Pc] /\ pending' \in [Run -> Seq(Entry)]
        /\ result' \in [Run -> Result]
        /\ \A q \in Run : Len(pending'[q]) = IF pc'[q] \in {"opening", "closing"} THEN 1 ELSE 0
    <3>1. CASE Close(r, es, res)
      BY <2>1, <2>3, <3>1, CloseTypes
    <3>2. CASE /\ pending' = [pending EXCEPT ![r] = Nothing]
               /\ result' = [result EXCEPT ![r] = [result[r] EXCEPT !.stage = "closed"]]
               /\ Goto(r, "triage")
      <4>1. "triage" \in Pc
        BY DEF Pc
      <4>2. result' \in [Run -> Result]
        BY <2>3, <3>2 DEF TypeOK
      <4>3. QED
        BY <3>2, <4>1, <4>2, WaitTypes
    <3>3. QED
      BY <2>2, <3>1, <3>2
  <2>6. QED
    BY <2>1, <2>4, <2>5 DEF TypeOK
<1>3. CASE Triage(r)
  <2>1. pc[r] = "triage" /\ UNCHANGED <<entries, cases, finished, snapshot, verdict, list, panel, coldStarts>>
    BY <1>3 DEF Triage, pageVars
  <2>2. /\ pc' \in [Run -> Pc] /\ pending' \in [Run -> Seq(Entry)]
        /\ result' \in [Run -> Result]
        /\ \A q \in Run : Len(pending'[q]) = IF pc'[q] \in {"opening", "closing"} THEN 1 ELSE 0
    <3>1. CASE Close(r, entries, [result[r] EXCEPT !.stage = "closed"])
      <4>1. [result[r] EXCEPT !.stage = "closed"] \in Result
        BY <1>b, <1>c
      <4>2. QED
        BY <1>d, <2>1, <3>1, <4>1, CloseTypes
    <3>2. CASE /\ result' = [result EXCEPT ![r].stage = "triage"]
               /\ Goto(r, "investigation") /\ UNCHANGED pending
      <4>1. "investigation" \in Pc
        BY DEF Pc
      <4>2. result' \in [Run -> Result]
        BY <1>b, <1>c, <3>2 DEF TypeOK
      <4>3. QED
        BY <2>1, <3>2, <4>1, <4>2, WaitTypes
    <3>3. QED
      BY <1>3, <3>1, <3>2 DEF Triage
  <2>3. QED
    BY <2>1, <2>2 DEF TypeOK
<1>4. CASE Investigate(r)
  <2>1. pc[r] = "investigation" /\ UNCHANGED <<entries, cases, finished, snapshot, verdict, list, panel, coldStarts>>
    BY <1>4 DEF Investigate, pageVars
  <2> DEFINE Res(risk) == [result[r] EXCEPT !.stage = "investigation", !.risk = risk]
  <2>2. PICK risk \in RiskScore :
          \/ Close(r, entries, WithAlert(Res(risk)))
          \/ /\ result' = [result EXCEPT ![r] = Res(risk)]
             /\ Goto(r, "compliance") /\ UNCHANGED pending
    BY <1>4 DEF Investigate
  <2>3. Res(risk) \in Result /\ WithAlert(Res(risk)) \in Result
    BY <1>b
  <2> HIDE DEF Res
  <2>4. /\ pc' \in [Run -> Pc] /\ pending' \in [Run -> Seq(Entry)]
        /\ result' \in [Run -> Result]
        /\ \A q \in Run : Len(pending'[q]) = IF pc'[q] \in {"opening", "closing"} THEN 1 ELSE 0
    <3>1. CASE Close(r, entries, WithAlert(Res(risk)))
      BY <1>d, <2>1, <2>3, <3>1, CloseTypes
    <3>2. CASE /\ result' = [result EXCEPT ![r] = Res(risk)]
               /\ Goto(r, "compliance") /\ UNCHANGED pending
      <4>1. "compliance" \in Pc
        BY DEF Pc
      <4>2. result' \in [Run -> Result]
        BY <2>3, <3>2 DEF TypeOK
      <4>3. QED
        BY <2>1, <3>2, <4>1, <4>2, WaitTypes
    <3>3. QED
      BY <2>2, <3>1, <3>2
  <2>5. QED
    BY <2>1, <2>4 DEF TypeOK
<1>5. CASE Comply(r)
  <2>1. pc[r] = "compliance" /\ UNCHANGED <<entries, cases, finished, snapshot, verdict, list, panel, coldStarts>>
    BY <1>5 DEF Comply, pageVars
  <2>2. WithAlert([result[r] EXCEPT !.stage = "compliance"]) \in Result
    BY <1>b, <1>c
  <2>3. /\ pc' \in [Run -> Pc] /\ pending' \in [Run -> Seq(Entry)]
        /\ result' \in [Run -> Result]
        /\ \A q \in Run : Len(pending'[q]) = IF pc'[q] \in {"opening", "closing"} THEN 1 ELSE 0
    BY <1>5, <1>d, <2>1, <2>2, CloseTypes DEF Comply
  <2>4. QED
    BY <2>1, <2>3 DEF TypeOK
<1>6. CASE Finish(r)
  <2>1. entries' \in Seq(Entry)
    BY <1>6, PushTypes DEF Finish
  <2>2. finished' \in Seq(Run)
    BY <1>6 DEF Finish, TypeOK
  <2>3. cases' \in Seq(Run) /\ Len(cases') <= Capacity
    <3>1. <<r>> \o cases \in Seq(Run)
      BY DEF TypeOK
    <3>2. cases' = Recorded(r)
      BY <1>6 DEF Finish
    <3>3. Capacity \in Nat
      BY ShowcaseAssumption
    <3>4. QED
      BY <3>1, <3>2, <3>3, CutType DEF Recorded
  <2>4. /\ pc' \in [Run -> Pc] /\ pending' \in [Run -> Seq(Entry)]
        /\ \A q \in Run : Len(pending'[q]) = IF pc'[q] \in {"opening", "closing"} THEN 1 ELSE 0
    <3>1. "answered" \in Pc
      BY DEF Pc
    <3>2. pending' = [pending EXCEPT ![r] = Nothing] /\ Goto(r, "answered")
      BY <1>6 DEF Finish
    <3>3. QED
      BY <3>1, <3>2, WaitTypes
  <2>5. UNCHANGED <<result, snapshot, verdict, list, panel, coldStarts>>
    BY <1>6 DEF Finish, pageVars
  <2>6. QED
    BY <2>1, <2>2, <2>3, <2>4, <2>5 DEF TypeOK
<1>7. CASE RunFails(r)
  <2>1. "failed" \in Pc
    BY DEF Pc
  <2>2. /\ pc' \in [Run -> Pc] /\ pending' \in [Run -> Seq(Entry)]
        /\ \A q \in Run : Len(pending'[q]) = IF pc'[q] \in {"opening", "closing"} THEN 1 ELSE 0
    <3>1. pc[r] \notin {"opening", "closing"} /\ UNCHANGED pending /\ Goto(r, "failed")
      BY <1>7 DEF RunFails, serverVars
    <3>2. QED
      BY <2>1, <3>1, WaitTypes
  <2>3. QED
    BY <1>7, <2>2 DEF RunFails, TypeOK, serverVars, pageVars
<1>8. QED
  BY <1>1, <1>2, <1>3, <1>4, <1>5, <1>6, <1>7

\* The page sends for a list or a verification and shows what it gets.
LEMMA PageTypes ==
  ASSUME TypeOK, HasFirst(entries), NEW r \in Run,
         ServeList(r) \/ ShowList(r) \/ ServeVerdict(r) \/ ShowVerdict(r) \/ RefreshFails(r)
  PROVE  TypeOK'
<1>0. {"listSent", "listed", "verdictSent", "ended"} \subseteq Pc
  BY DEF Pc
<1>1. /\ pc' \in [Run -> Pc] /\ UNCHANGED <<serverVars, coldStarts>>
      /\ \A q \in Run : pc'[q] \in {"opening", "closing"} <=> pc[q] \in {"opening", "closing"}
  <2>1. UNCHANGED <<serverVars, coldStarts>>
    BY DEF ServeList, ShowList, ServeVerdict, ShowVerdict, RefreshFails
  <2>2. /\ pc[r] \notin {"opening", "closing"}
        /\ \E p \in {"listSent", "listed", "verdictSent", "ended"} : pc' = [pc EXCEPT ![r] = p]
    BY DEF ServeList, ShowList, ServeVerdict, ShowVerdict, RefreshFails, Goto
  <2>3. PICK p \in {"listSent", "listed", "verdictSent", "ended"} : pc' = [pc EXCEPT ![r] = p]
    BY <2>2
  <2>4. pc \in [Run -> Pc] /\ p \in Pc /\ p \notin {"opening", "closing"}
    BY <1>0, <2>3 DEF TypeOK
  <2>5. QED
    BY <2>1, <2>2, <2>3, <2>4
<1>2. snapshot' \in [Run -> Seq(Run)]
  <2>1. CASE ServeList(r)
    <3> DEFINE t == SubSeq(cases, 1, IF Len(cases) > Limit THEN Limit ELSE Len(cases))
    <3>1. cases \in Seq(Run) /\ Limit \in Nat
      BY ShowcaseAssumption DEF TypeOK
    <3>2. t \in Seq(Run)
      BY <3>1, CutType
    <3>3. snapshot' = [snapshot EXCEPT ![r] = t]
      BY <2>1 DEF ServeList
    <3> HIDE DEF t
    <3>4. QED
      BY <3>2, <3>3 DEF TypeOK
  <2>2. CASE snapshot' = [snapshot EXCEPT ![r] = <<>>]
    BY <2>2 DEF TypeOK
  <2>3. CASE UNCHANGED snapshot
    BY <2>3 DEF TypeOK
  <2>4. QED
    BY <2>1, <2>2, <2>3 DEF ShowList, ServeVerdict, ShowVerdict, RefreshFails
<1>3. verdict' \in [Run -> VerdictType]
  <2>1. CASE ServeVerdict(r)
    <3>1. Verdict(entries) \in VerdictType
      BY VerdictTypes DEF TypeOK
    <3>2. QED
      BY <2>1, <3>1 DEF ServeVerdict, TypeOK
  <2>2. CASE verdict' = [verdict EXCEPT ![r] = NoVerdict]
    <3>1. NoVerdict \in VerdictType
      BY DEF NoVerdict, VerdictType
    <3>2. QED
      BY <2>2, <3>1 DEF TypeOK
  <2>3. CASE UNCHANGED verdict
    BY <2>3 DEF TypeOK
  <2>4. QED
    BY <2>1, <2>2, <2>3 DEF ServeList, ShowList, ShowVerdict, RefreshFails
<1>4. list' \in Seq(Run) /\ panel' \in VerdictType
  BY DEF ServeList, ShowList, ServeVerdict, ShowVerdict, RefreshFails, TypeOK
<1>5. QED
  BY <1>1, <1>2, <1>3, <1>4 DEF TypeOK, serverVars

LEMMA ColdStartTypes ==
  ASSUME TypeOK, ColdStart
  PROVE  TypeOK'
<1>1. coldStarts' \in 0..MaxColdStarts
  BY ShowcaseAssumption DEF TypeOK, ColdStart
<1>2. /\ pc' \in [Run -> Pc]
      /\ \A q \in Run : pc'[q] \notin {"opening", "closing"}
  <2>1. "lost" \in Pc
    BY DEF Pc
  <2>2. QED
    BY <2>1 DEF TypeOK, ColdStart, AtServer
<1>3. pending' \in [Run -> Seq(Entry)] /\ \A q \in Run : Len(pending'[q]) = 0
  BY DEF ColdStart, Nothing
<1>4. entries' = <<>> /\ cases' = <<>> /\ finished' = <<>>
      /\ UNCHANGED <<result, snapshot, verdict, list, panel>>
  BY DEF ColdStart, pageVars
<1>5. Capacity \in Nat
  BY ShowcaseAssumption
<1>6. QED
  BY <1>1, <1>2, <1>3, <1>4, <1>5 DEF TypeOK

-----------------------------------------------------------------------------
(* The chain *)

LEMMA PreparedFits ==
  ASSUME NEW es \in Seq(Entry), NEW c \in Content
  PROVE  Fits(es, Len(es) + 1, Prepared(es, c))
<1>1. Len(es) \in Nat
  OBVIOUS
<1>2. QED
  BY <1>1 DEF Fits, Prepared

\* Entries pushed later change nothing of what an entry was prepared from.
LEMMA FitsGrows ==
  ASSUME NEW es \in Seq(Entry), NEW x \in Entry, NEW e,
         NEW n \in 1..(Len(es) + 1), NEW m \in Nat, n <= m, Fits(es, n, e)
  PROVE  Fits(Append(es, x), m, e)
<1>1. e.seq \in 1..n /\ e.seq \in 1..m /\ e.seq \in Nat
  BY DEF Fits
<1>2. e.seq # 1 => Append(es, x)[e.seq - 1] = es[e.seq - 1]
  <2>1. e.seq # 1 => e.seq - 1 \in 1..Len(es)
    BY <1>1
  <2>2. \A i \in 1..Len(es) : Append(es, x)[i] = es[i]
    OBVIOUS
  <2>3. QED
    BY <2>1, <2>2
<1>3. QED
  BY <1>1, <1>2 DEF Fits

LEMMA BreaksStay ==
  ASSUME NEW es \in Seq(Entry), NEW x \in Entry
  PROVE  /\ \A i \in 1..Len(es) : Breaks(Append(es, x), i) <=> Breaks(es, i)
         /\ \A n \in 0..Len(es) : Unbroken(Append(es, x), n) <=> Unbroken(es, n)
<1>1. \A i \in 1..Len(es) : Append(es, x)[i] = es[i]
  OBVIOUS
<1>2. \A i \in 1..Len(es) : i # 1 => i - 1 \in 1..Len(es)
  OBVIOUS
<1>3. \A i \in 1..Len(es) : Breaks(Append(es, x), i) <=> Breaks(es, i)
  <2> TAKE i \in 1..Len(es)
  <2>1. CASE i = 1
    BY <1>1, <2>1 DEF Breaks
  <2>2. CASE i # 1
    <3>1. Append(es, x)[i] = es[i] /\ Append(es, x)[i - 1] = es[i - 1]
      BY <1>1, <1>2, <2>2
    <3>2. QED
      BY <2>2, <3>1 DEF Breaks
  <2>3. QED
    BY <2>1, <2>2
<1>4. \A n \in 0..Len(es) : Unbroken(Append(es, x), n) <=> Unbroken(es, n)
  BY <1>3 DEF Unbroken
<1>5. QED
  BY <1>3, <1>4

\* An entry that fits and links to the last one of an unbroken chain is the next.
LEMMA NextCounts ==
  ASSUME NEW es \in Seq(Entry), Linked(es), Counting(es), NEW e \in Entry,
         Fits(es, Len(es) + 1, e), Unbroken(Append(es, e), Len(es) + 1)
  PROVE  Counted(Append(es, e), Len(es) + 1)
<1> DEFINE n == Len(es)
           ext == Append(es, e)
<1>1. n \in Nat /\ ext[n + 1] = e /\ \A i \in 1..n : ext[i] = es[i]
  OBVIOUS
<1>2. ~Breaks(ext, n + 1) /\ Unbroken(ext, n)
  BY <1>1 DEF Unbroken
<1>3. Unbroken(es, n)
  BY <1>1, <1>2, BreaksStay
<1>4. \A k \in 1..n : Len(es[k].hash) = k
  <2> TAKE k \in 1..n
  <2>1. Unbroken(es, k)
    BY <1>1, <1>3 DEF Unbroken
  <2>2. QED
    BY <2>1 DEF Counting, Counted
<1>5. e.prev = IF n = 0 THEN GenesisHash ELSE es[n].hash
  <2>1. e.prev = IF n + 1 = 1 THEN GenesisHash ELSE ext[n + 1 - 1].hash
    BY <1>1, <1>2 DEF Breaks
  <2>2. n # 0 => ext[n + 1 - 1] = es[n]
    BY <1>1
  <2>3. QED
    BY <1>1, <2>1, <2>2
<1>6. e.seq \in 1..(n + 1) /\ e.prev = (IF e.seq = 1 THEN GenesisHash ELSE es[e.seq - 1].hash)
      /\ e.hash = ComputeHash(e.seq, e.content, e.prev)
  BY DEF Fits
<1>7. Len(GenesisHash) = 0
  BY DEF GenesisHash
<1>8. Len(e.prev) = n
  BY <1>1, <1>4, <1>5, <1>7
<1>9. Len(e.prev) = e.seq - 1
  <2>1. CASE e.seq = 1
    BY <1>6, <1>7, <2>1
  <2>2. CASE e.seq # 1
    <3>1. e.seq - 1 \in 1..n
      BY <1>1, <1>6, <2>2
    <3>2. QED
      BY <1>4, <1>6, <2>2, <3>1
  <2>3. QED
    BY <2>1, <2>2
<1>10. e.seq = n + 1
  BY <1>1, <1>6, <1>8, <1>9
<1>11. Len(e.hash) = n + 1
  <2>1. PICK prev \in Seq(Nat \X Content) : prev = e.prev
    BY DEF Entry, Hash
  <2>2. e.hash = Append(prev, <<e.seq, e.content>>)
    BY <1>6, <2>1 DEF ComputeHash
  <2>3. Len(Append(prev, <<e.seq, e.content>>)) = Len(prev) + 1
    OBVIOUS
  <2>4. QED
    BY <1>8, <2>1, <2>2, <2>3
<1>12. QED
  BY <1>1, <1>10, <1>11 DEF Counted

LEMMA PushKeeps ==
  ASSUME NEW es \in Seq(Entry), Chain(es), NEW e \in Entry, Fits(es, Len(es) + 1, e)
  PROVE  Chain(Append(es, e))
<1> DEFINE n == Len(es)
           ext == Append(es, e)
<1>1. n \in Nat /\ Len(ext) = n + 1 /\ ext[n + 1] = e /\ \A i \in 1..n : ext[i] = es[i]
  OBVIOUS
<1>2. /\ \A i \in 1..n : Breaks(ext, i) <=> Breaks(es, i)
      /\ \A i \in 0..n : Unbroken(ext, i) <=> Unbroken(es, i)
  BY BreaksStay
<1>3. Linked(ext)
  <2>1. \A i \in 1..n : Fits(ext, i, es[i])
    <3> TAKE i \in 1..n
    <3>1. Fits(es, i, es[i])
      BY DEF Chain, Linked
    <3>2. i \in 1..(n + 1) /\ i \in Nat /\ i <= i
      BY <1>1
    <3>3. QED
      BY <3>1, <3>2, FitsGrows
  <2>2. Fits(ext, n + 1, e)
    <3>1. n + 1 \in 1..(n + 1) /\ n + 1 \in Nat /\ n + 1 <= n + 1
      BY <1>1
    <3>2. QED
      BY <3>1, FitsGrows
  <2> HIDE DEF ext
  <2>3. \A i \in 1..(n + 1) : i \in 1..n \/ i = n + 1
    BY <1>1
  <2> HIDE DEF n
  <2>4. QED
    BY <1>1, <2>1, <2>2, <2>3 DEF Linked
<1>4. Counting(ext)
  <2>1. \A k \in 1..n : Unbroken(ext, k) => Counted(ext, k)
    <3> TAKE k \in 1..n
    <3> HAVE Unbroken(ext, k)
    <3>1. k \in 0..n
      BY <1>1
    <3>2. Unbroken(es, k)
      BY <1>2, <3>1
    <3>3. Counted(es, k) /\ ext[k] = es[k]
      BY <1>1, <3>2 DEF Chain, Counting
    <3>4. QED
      BY <3>3 DEF Counted
  <2>2. Unbroken(ext, n + 1) => Counted(ext, n + 1)
    BY NextCounts DEF Chain
  <2> HIDE DEF ext
  <2>3. \A i \in 1..(n + 1) : i \in 1..n \/ i = n + 1
    BY <1>1
  <2> HIDE DEF n
  <2>4. QED
    BY <1>1, <2>1, <2>2, <2>3 DEF Counting
<1>5. HasFirst(ext)
  <2>1. CASE \E i \in 1..n : Breaks(es, i)
    <3>1. PICK i \in 1..n : Breaks(es, i) /\ Unbroken(es, i - 1)
      BY <2>1 DEF Chain, HasFirst
    <3>2. i - 1 \in 0..n /\ i \in 1..(n + 1)
      BY <1>1
    <3>3. Breaks(ext, i) /\ Unbroken(ext, i - 1)
      BY <1>2, <3>1, <3>2
    <3>4. QED
      BY <1>1, <3>2, <3>3 DEF HasFirst
  <2>2. CASE ~\E i \in 1..n : Breaks(es, i)
    <3>1. \A i \in 1..n : ~Breaks(ext, i)
      BY <1>2, <2>2
    <3>2. Unbroken(ext, n)
      BY <3>1 DEF Unbroken
    <3> HIDE DEF ext
    <3>3. \A i \in 1..(n + 1) : Breaks(ext, i) => i = n + 1
      BY <1>1, <3>1
    <3>4. n + 1 - 1 = n /\ n + 1 \in 1..(n + 1)
      BY <1>1
    <3> HIDE DEF n
    <3>5. QED
      BY <1>1, <3>2, <3>3, <3>4 DEF HasFirst
  <2>3. QED
    BY <2>1, <2>2
<1>6. QED
  BY <1>3, <1>4, <1>5 DEF Chain

\* What a step of a run does to the chain: nothing, or it pushes what the run had
\* prepared; what it prepares, it prepares at the end of the chain it leaves.
ChainStep(r) ==
  /\ \/ UNCHANGED entries
     \/ pc[r] \in {"opening", "closing"} /\ entries' = Append(entries, pending[r][1])
  /\ \A q \in Run : \/ pending'[q] = pending[q] \/ pending'[q] = Nothing
                    \/ \E c \in Content : pending'[q] = <<Prepared(entries', c)>>

LEMMA CloseSteps ==
  ASSUME TypeOK, NEW r \in Run, NEW res \in Result, Close(r, entries', res)
  PROVE  \A q \in Run : \/ pending'[q] = pending[q] \/ pending'[q] = Nothing
                        \/ \E c \in Content : pending'[q] = <<Prepared(entries', c)>>
<1> DEFINE c == Closed(r, res)
           p == <<Prepared(entries', c)>>
<1>1. c \in Content
  BY ContentTypes
<1>2. pending' = [pending EXCEPT ![r] = p]
  BY DEF Close
<1>3. pending \in [Run -> Seq(Entry)]
  BY DEF TypeOK
<1> HIDE DEF c
<1>4. \E d \in Content : p = <<Prepared(entries', d)>>
  BY <1>1
<1> HIDE DEF p
<1>5. QED
  BY <1>2, <1>3, <1>4

LEMMA RunSteps ==
  ASSUME TypeOK, NEW r \in Run,
         Post(r) \/ Open(r) \/ Triage(r) \/ Investigate(r) \/ Comply(r) \/ Finish(r) \/ RunFails(r)
  PROVE  ChainStep(r)
<1>a. pending \in [Run -> Seq(Entry)] /\ result[r] \in Result
  BY DEF TypeOK
<1>1. CASE Post(r)
  <2> DEFINE p == <<Prepared(entries', Opened(r))>>
  <2>1. Opened(r) \in Content
    BY ContentTypes
  <2>2. UNCHANGED entries /\ pending' = [pending EXCEPT ![r] = p]
    BY <1>1 DEF Post
  <2>3. \E d \in Content : p = <<Prepared(entries', d)>>
    BY <2>1
  <2> HIDE DEF p
  <2>4. QED
    BY <1>a, <2>2, <2>3 DEF ChainStep
<1>2. CASE Open(r)
  <2> DEFINE res == [stage |-> "closed", risk |-> NoRisk, alert |-> "none"]
  <2>1. pc[r] \in {"opening", "closing"} /\ entries' = Append(entries, pending[r][1])
    BY <1>2 DEF Open
  <2>2. \/ Close(r, entries', res) \/ pending' = [pending EXCEPT ![r] = Nothing]
    BY <1>2 DEF Open
  <2>3. res \in Result
    BY <1>a, ResultTypes
  <2> HIDE DEF res
  <2>4. CASE Close(r, entries', res)
    BY <2>1, <2>3, <2>4, CloseSteps DEF ChainStep
  <2>5. CASE pending' = [pending EXCEPT ![r] = Nothing]
    BY <1>a, <2>1, <2>5 DEF ChainStep
  <2>6. QED
    BY <2>2, <2>4, <2>5
<1>3. CASE Triage(r)
  <2> DEFINE res == [result[r] EXCEPT !.stage = "closed"]
  <2>1. UNCHANGED entries
    BY <1>3 DEF Triage
  <2>2. Close(r, entries', res) \/ UNCHANGED pending
    BY <1>3 DEF Triage
  <2>3. res \in Result
    BY <1>a, ResultTypes DEF Stage
  <2> HIDE DEF res
  <2>4. QED
    BY <2>1, <2>2, <2>3, CloseSteps DEF ChainStep
<1>4. CASE Investigate(r)
  <2>1. UNCHANGED entries
    BY <1>4 DEF Investigate
  <2>2. PICK risk \in RiskScore :
          \/ Close(r, entries', WithAlert([result[r] EXCEPT !.stage = "investigation", !.risk = risk]))
          \/ UNCHANGED pending
    BY <1>4 DEF Investigate
  <2> DEFINE mid == [result[r] EXCEPT !.stage = "investigation", !.risk = risk]
             res == WithAlert(mid)
  <2>3. mid \in Result
    BY <1>a, ResultTypes
  <2> HIDE DEF mid
  <2>4. res \in Result
    BY <2>3, ResultTypes
  <2>5. Close(r, entries', res) \/ UNCHANGED pending
    BY <2>2 DEF mid
  <2> HIDE DEF res
  <2>6. QED
    BY <2>1, <2>4, <2>5, CloseSteps DEF ChainStep
<1>5. CASE Comply(r)
  <2> DEFINE mid == [result[r] EXCEPT !.stage = "compliance"]
             res == WithAlert(mid)
  <2>1. UNCHANGED entries /\ Close(r, entries', res)
    BY <1>5 DEF Comply
  <2>2. mid \in Result
    BY <1>a, ResultTypes DEF Stage
  <2> HIDE DEF mid
  <2>3. res \in Result
    BY <2>2, ResultTypes
  <2> HIDE DEF res
  <2>4. QED
    BY <2>1, <2>3, CloseSteps DEF ChainStep
<1>6. CASE Finish(r)
  <2>1. /\ pc[r] \in {"opening", "closing"} /\ entries' = Append(entries, pending[r][1])
        /\ pending' = [pending EXCEPT ![r] = Nothing]
    BY <1>6 DEF Finish
  <2>2. QED
    BY <1>a, <2>1 DEF ChainStep
<1>7. CASE RunFails(r)
  BY <1>7 DEF RunFails, serverVars, ChainStep
<1>8. QED
  BY <1>1, <1>2, <1>3, <1>4, <1>5, <1>6, <1>7

\* Every step of a run keeps the chain and what is prepared for it.
LEMMA StepKeeps ==
  ASSUME TypeOK, TypeOK', ChainInv, NEW r \in Run, ChainStep(r)
  PROVE  ChainInv'
<1>1. entries \in Seq(Entry) /\ entries' \in Seq(Entry) /\ pending' \in [Run -> Seq(Entry)]
  BY DEF TypeOK
<1>2. Chain(entries') /\
      \A q \in Run : pending[q] # Nothing => Fits(entries', Len(entries') + 1, pending[q][1])
  <2>1. CASE UNCHANGED entries
    BY <2>1 DEF ChainInv
  <2>2. CASE pc[r] \in {"opening", "closing"} /\ entries' = Append(entries, pending[r][1])
    <3> DEFINE e == pending[r][1]
               n == Len(entries)
    <3>1. e \in Entry
      BY <2>2, PushTypes
    <3>2. pending[r] # Nothing
      BY <2>2 DEF TypeOK, Nothing
    <3>3. Fits(entries, n + 1, e)
      BY <3>2 DEF ChainInv
    <3>4. entries' = Append(entries, e)
      BY <2>2
    <3> HIDE DEF e
    <3>5. Chain(entries')
      BY <1>1, <3>1, <3>3, <3>4, PushKeeps DEF ChainInv
    <3>6. n \in Nat /\ Len(entries') = n + 1
      BY <1>1, <3>4
    <3>7. \A q \in Run : pending[q] # Nothing => Fits(entries', n + 2, pending[q][1])
      <4> TAKE q \in Run
      <4> HAVE pending[q] # Nothing
      <4>1. Fits(entries, n + 1, pending[q][1])
        BY DEF ChainInv
      <4>2. n + 1 \in 1..(Len(entries) + 1) /\ n + 2 \in Nat /\ n + 1 <= n + 2
        BY <3>6
      <4> HIDE DEF n
      <4>3. QED
        BY <1>1, <3>1, <3>4, <4>1, <4>2, FitsGrows
    <3> HIDE DEF n
    <3>8. QED
      <4>1. Len(entries') + 1 = n + 2
        BY <3>6
      <4>2. QED
        BY <3>5, <3>7, <4>1
  <2>3. QED
    BY <2>1, <2>2 DEF ChainStep
<1>3. \A q \in Run : pending'[q] # Nothing => Fits(entries', Len(entries') + 1, pending'[q][1])
  <2> TAKE q \in Run
  <2> HAVE pending'[q] # Nothing
  <2>1. CASE pending'[q] = pending[q]
    BY <1>2, <2>1
  <2>2. CASE \E c \in Content : pending'[q] = <<Prepared(entries', c)>>
    <3>1. PICK c \in Content : pending'[q] = <<Prepared(entries', c)>>
      BY <2>2
    <3>2. pending'[q][1] = Prepared(entries', c)
      BY <3>1
    <3>3. QED
      BY <1>1, <3>2, PreparedFits
  <2>3. QED
    BY <2>1, <2>2 DEF ChainStep
<1>4. QED
  BY <1>2, <1>3 DEF ChainInv

LEMMA EmptyChain == Chain(<<>>)
<1>1. Len(<<>>) = 0 /\ 1..0 = {}
  OBVIOUS
<1>2. QED
  BY <1>1 DEF Chain, Linked, Counting, HasFirst

-----------------------------------------------------------------------------
(* Theorems *)

LEMMA InitChain == Init => ChainInv
<1> SUFFICES ASSUME Init PROVE ChainInv
  OBVIOUS
<1>1. entries = <<>> /\ \A r \in Run : pending[r] = Nothing
  BY DEF Init
<1>2. QED
  BY <1>1, EmptyChain DEF ChainInv

LEMMA NextKeeps ==
  ASSUME TypeOK, ChainInv, [Next]_vars
  PROVE  TypeOK' /\ ChainInv'
<1>a. HasFirst(entries)
  BY DEF ChainInv, Chain
<1>1. CASE \E r \in Run : Post(r) \/ Open(r) \/ Triage(r) \/ Investigate(r) \/ Comply(r)
                          \/ Finish(r) \/ RunFails(r)
  <2>1. PICK r \in Run : Post(r) \/ Open(r) \/ Triage(r) \/ Investigate(r) \/ Comply(r)
                         \/ Finish(r) \/ RunFails(r)
    BY <1>1
  <2>2. TypeOK'
    BY <2>1, ServerTypes
  <2>3. ChainStep(r)
    BY <2>1, RunSteps
  <2>4. QED
    BY <2>2, <2>3, StepKeeps
<1>2. CASE \E r \in Run : ServeList(r) \/ ShowList(r) \/ ServeVerdict(r) \/ ShowVerdict(r)
                          \/ RefreshFails(r)
  <2>1. PICK r \in Run : ServeList(r) \/ ShowList(r) \/ ServeVerdict(r) \/ ShowVerdict(r)
                         \/ RefreshFails(r)
    BY <1>2
  <2>2. TypeOK'
    BY <1>a, <2>1, PageTypes
  <2>3. UNCHANGED <<entries, pending>>
    BY <2>1 DEF ServeList, ShowList, ServeVerdict, ShowVerdict, RefreshFails, serverVars
  <2>4. ChainInv'
    BY <2>3 DEF ChainInv
  <2>5. QED
    BY <2>2, <2>4
<1>3. CASE ColdStart
  <2>1. TypeOK'
    BY <1>3, ColdStartTypes
  <2>2. entries' = <<>> /\ \A r \in Run : pending'[r] = Nothing
    BY <1>3 DEF ColdStart
  <2>3. ChainInv'
    BY <2>2, EmptyChain DEF ChainInv
  <2>4. QED
    BY <2>1, <2>3
<1>4. CASE UNCHANGED vars
  BY <1>4 DEF vars, serverVars, pageVars, TypeOK, ChainInv
<1>5. QED
  BY <1>1, <1>2, <1>3, <1>4 DEF Next

LEMMA ChainHolds == Spec => [](TypeOK /\ ChainInv)
<1>1. Init => TypeOK /\ ChainInv
  BY InitTypes, InitChain
<1>2. (TypeOK /\ ChainInv) /\ [Next]_vars => (TypeOK /\ ChainInv)'
  BY NextKeeps
<1>3. QED
  BY <1>1, <1>2, PTL DEF Spec

\* However many runs overlap, every variable keeps its type and the case list its
\* bound.
THEOREM ShowcaseTypes == Spec => []TypeOK
BY ChainHolds, PTL

\* However many appends overlap, the verification, which looks at links and hashes
\* alone, accepts the chain exactly when its numbers are 1, 2, 3 and so on.
THEOREM ValidInOrder == Spec => []ValidExactlyInOrder
<1>1. TypeOK /\ ChainInv => ValidExactlyInOrder
  <2> SUFFICES ASSUME TypeOK, ChainInv
               PROVE  ~(\E i \in 1..Len(entries) : Breaks(entries, i)) <=> InOrder
    BY DEF ValidExactlyInOrder, Verdict
  <2>1. entries \in Seq(Entry) /\ Len(entries) \in Nat /\ Linked(entries) /\ Counting(entries)
    BY DEF TypeOK, ChainInv, Chain
  <2>2. ASSUME ~\E i \in 1..Len(entries) : Breaks(entries, i)
        PROVE  InOrder
    <3>1. \A i \in 1..Len(entries) : Unbroken(entries, i)
      BY <2>1, <2>2 DEF Unbroken
    <3>2. QED
      BY <2>1, <3>1 DEF InOrder, Counting, Counted
  <2>3. ASSUME InOrder, NEW i \in 1..Len(entries)
        PROVE  ~Breaks(entries, i)
    <3>1. entries[i].seq = i /\ Fits(entries, i, entries[i])
      BY <2>1, <2>3 DEF InOrder, Linked
    <3>2. QED
      BY <3>1 DEF Fits, Breaks
  <2>4. QED
    BY <2>2, <2>3
<1>2. QED
  BY <1>1, ChainHolds, PTL

\* The number an invalid verification reports is the number of two entries: the
\* first broken one, and the one that got there before it.
THEOREM NumberShared == Spec => []SharedNumberReported
<1>1. TypeOK /\ ChainInv => SharedNumberReported
  <2> SUFFICES ASSUME TypeOK, ChainInv, ~Verdict(entries).valid
               PROVE  \E i, j \in 1..Len(entries) :
                        /\ i < j /\ entries[i].seq = Verdict(entries).broken
                        /\ entries[j].seq = Verdict(entries).broken
    BY DEF SharedNumberReported
  <2> DEFINE p == CHOOSE i \in 1..Len(entries) :
                    Breaks(entries, i) /\ \A j \in 1..(i - 1) : ~Breaks(entries, j)
             q == entries[p].seq
  <2>1. Linked(entries) /\ Counting(entries) /\ HasFirst(entries) /\ Len(entries) \in Nat
    BY DEF TypeOK, ChainInv, Chain
  <2>2. \E i \in 1..Len(entries) : Breaks(entries, i)
    BY DEF Verdict
  <2>3. p \in 1..Len(entries) /\ Breaks(entries, p) /\ \A j \in 1..(p - 1) : ~Breaks(entries, j)
    BY <2>1, <2>2 DEF HasFirst, Unbroken
  <2>4. Verdict(entries).broken = q
    BY <2>2 DEF Verdict
  <2> HIDE DEF p
  <2>5. Fits(entries, p, entries[p])
    BY <2>1, <2>3 DEF Linked
  <2>6. q \in 1..p /\ q # p
    BY <2>3, <2>5 DEF Fits, Breaks
  <2> HIDE DEF q
  <2>7. q \in 1..Len(entries) /\ q < p /\ q \in 1..(p - 1)
    BY <2>1, <2>3, <2>6
  <2>8. Unbroken(entries, q)
    BY <2>3, <2>7 DEF Unbroken
  <2>9. entries[q].seq = q
    BY <2>1, <2>7, <2>8 DEF Counting, Counted
  <2>10. entries[p].seq = q
    BY DEF q
  <2>11. QED
    BY <2>3, <2>4, <2>7, <2>9, <2>10
<1>2. QED
  BY <1>1, ChainHolds, PTL

-----------------------------------------------------------------------------
(* Receipts of a run on the chain *)

After == {"answered", "listSent", "listed", "verdictSent", "ended"}
HasFinished(r) == \E n \in 1..Len(finished) : finished[n] = r

\* Both receipts are there, each once and in order, and the second tells the result.
Recounted(r) ==
  \E i, j \in 1..Len(entries) :
    /\ i < j
    /\ Places(r, "case.opened") = {i} /\ Places(r, "case.closed") = {j}
    /\ entries[j].content = Closed(r, result[r])

\* What the chain knows of a run, by what the run awaits.
Told(r) ==
  /\ pc[r] \in {"idle", "opening"} => Places(r, "case.opened") = {}
  /\ pc[r] \in {"triage", "investigation", "compliance", "closing"} =>
       \E i \in 1..Len(entries) : Places(r, "case.opened") = {i}
  /\ pc[r] \in {"idle"} \cup {"opening", "triage", "investigation", "compliance", "closing"} =>
       Places(r, "case.closed") = {}
  /\ pc[r] = "opening" => pending[r][1].content = Opened(r)
  /\ pc[r] = "closing" => pending[r][1].content = Closed(r, result[r])
  /\ HasFinished(r) => pc[r] \in After /\ Recounted(r)

TellingInv == \A r \in Run : Told(r)

-----------------------------------------------------------------------------
(* The case list *)

\* s are the newest of the first n runs that finished, at most so many.
Newest(fin, s, n, most) ==
  /\ Len(s) = IF n > most THEN most ELSE n
  /\ \A k \in 1..Len(s) : s[k] = fin[n + 1 - k]

\* What a run that finished fetched, and how many had finished when it did.
Fetched(r) ==
  \A n \in 1..Len(finished) :
    finished[n] = r =>
      /\ pc[r] \in After
      /\ pc[r] = "listSent" =>
           \E m \in n..Len(finished) : Newest(finished, snapshot[r], m, Limit)

ListInv ==
  /\ Newest(finished, cases, Len(finished), Capacity)
  /\ \A r \in Run : Fetched(r)

-----------------------------------------------------------------------------
(* Steps of a run, as the receipts and the list see them *)

\* What the run at hand leaves alone of every other run.
OthersStay(r) ==
  \A q \in Run : q # r =>
    /\ pc'[q] = pc[q] /\ pending'[q] = pending[q] /\ result'[q] = result[q]
    /\ snapshot'[q] = snapshot[q]

\* An agent is to be asked next, or the result is complete and its receipt prepared.
GoesOn(r) ==
  \/ pc'[r] \in {"triage", "investigation", "compliance"}
  \/ pc'[r] = "closing" /\ pending'[r][1].content = Closed(r, result'[r])

ListStays == UNCHANGED <<cases, finished>>

Posts(r) ==
  /\ pc[r] = "idle" /\ pc'[r] = "opening" /\ pending'[r][1].content = Opened(r)
  /\ UNCHANGED entries /\ ListStays
Opens(r) ==
  /\ pc[r] = "opening" /\ entries' = Append(entries, pending[r][1]) /\ GoesOn(r)
  /\ ListStays
Works(r) ==
  /\ pc[r] \in {"triage", "investigation", "compliance"}
  /\ GoesOn(r) \/ pc'[r] = "failed"
  /\ UNCHANGED entries /\ ListStays
Finishes(r) ==
  /\ pc[r] = "closing" /\ entries' = Append(entries, pending[r][1])
  /\ pc'[r] = "answered" /\ result'[r] = result[r]
  /\ cases' = Recorded(r) /\ finished' = Append(finished, r)

LEMMA CloseGoesOn ==
  ASSUME TypeOK, NEW r \in Run, NEW es, NEW res, Close(r, es, res)
  PROVE  /\ GoesOn(r)
         /\ \A q \in Run : q # r =>
              pc'[q] = pc[q] /\ pending'[q] = pending[q] /\ result'[q] = result[q]
<1> DEFINE e == Prepared(es, Closed(r, res))
<1>1. /\ pc \in [Run -> Pc] /\ pending \in [Run -> Seq(Entry)] /\ result \in [Run -> Result]
  BY DEF TypeOK
<1>2. /\ result' = [result EXCEPT ![r] = res] /\ pending' = [pending EXCEPT ![r] = <<e>>]
      /\ pc' = [pc EXCEPT ![r] = "closing"]
  BY DEF Close, Goto
<1>3. e.content = Closed(r, res)
  BY DEF Prepared
<1> HIDE DEF e
<1>4. pending'[r] = <<e>> /\ result'[r] = res /\ pc'[r] = "closing"
  BY <1>1, <1>2
<1> QED  BY <1>1, <1>2, <1>3, <1>4 DEF GoesOn

LEMMA RunMoves ==
  ASSUME TypeOK, NEW r \in Run,
         Post(r) \/ Open(r) \/ Triage(r) \/ Investigate(r) \/ Comply(r) \/ Finish(r) \/ RunFails(r)
  PROVE  /\ OthersStay(r) /\ snapshot' = snapshot
         /\ Posts(r) \/ Opens(r) \/ Works(r) \/ Finishes(r)
<1>a. /\ pc \in [Run -> Pc] /\ pending \in [Run -> Seq(Entry)] /\ result \in [Run -> Result]
  BY DEF TypeOK
<1>b. snapshot' = snapshot
  BY DEF Post, Open, Triage, Investigate, Comply, Finish, RunFails, pageVars
<1>1. CASE Post(r)
  <2> DEFINE e == Prepared(entries, Opened(r))
  <2>1. /\ pc[r] = "idle" /\ pc' = [pc EXCEPT ![r] = "opening"] /\ UNCHANGED entries /\ ListStays
        /\ pending' = [pending EXCEPT ![r] = <<e>>] /\ result' = result
    BY <1>1 DEF Post, Goto, ListStays
  <2>2. e.content = Opened(r)
    BY DEF Prepared
  <2> HIDE DEF e
  <2>3. pending'[r] = <<e>> /\ pc'[r] = "opening"
    BY <1>a, <2>1
  <2> QED  BY <1>a, <1>b, <2>1, <2>2, <2>3 DEF OthersStay, Posts
<1>2. CASE Open(r)
  <2>1. pc[r] = "opening" /\ entries' = Append(entries, pending[r][1]) /\ ListStays
    BY <1>2 DEF Open, ListStays
  <2>2. CASE \E es, res : Close(r, es, res)
    BY <1>b, <2>1, <2>2, CloseGoesOn DEF Opens, OthersStay
  <2>3. CASE /\ pending' = [pending EXCEPT ![r] = Nothing]
             /\ result' = [result EXCEPT ![r].stage = "closed"]
             /\ pc' = [pc EXCEPT ![r] = "triage"]
    BY <1>a, <1>b, <2>1, <2>3 DEF Opens, OthersStay, GoesOn
  <2> QED  BY <1>2, <2>2, <2>3 DEF Open, Goto
<1>3. CASE Triage(r) \/ Investigate(r) \/ Comply(r)
  <2>1. /\ pc[r] \in {"triage", "investigation", "compliance"}
        /\ UNCHANGED entries /\ ListStays
    BY <1>3 DEF Triage, Investigate, Comply, ListStays
  <2>2. \/ \E es, res : Close(r, es, res)
        \/ /\ \E res : result' = [result EXCEPT ![r] = res]
           /\ \E p \in {"investigation", "compliance"} : pc' = [pc EXCEPT ![r] = p]
           /\ UNCHANGED pending
    <3>1. CASE Triage(r)
      BY <3>1 DEF Triage, Goto
    <3>2. CASE Investigate(r)
      BY <3>2 DEF Investigate, Goto
    <3>3. CASE Comply(r)
      BY <3>3 DEF Comply
    <3> QED  BY <1>3, <3>1, <3>2, <3>3
  <2>3. CASE \E es, res : Close(r, es, res)
    BY <1>b, <2>1, <2>3, CloseGoesOn DEF Works, OthersStay
  <2>4. CASE /\ \E res : result' = [result EXCEPT ![r] = res]
             /\ \E p \in {"investigation", "compliance"} : pc' = [pc EXCEPT ![r] = p]
             /\ UNCHANGED pending
    BY <1>a, <1>b, <2>1, <2>4 DEF Works, OthersStay, GoesOn
  <2> QED  BY <2>2, <2>3, <2>4
<1>4. CASE Finish(r)
  BY <1>a, <1>b, <1>4 DEF Finish, Goto, Finishes, OthersStay
<1>5. CASE RunFails(r)
  BY <1>a, <1>b, <1>5 DEF RunFails, Goto, Works, OthersStay, ListStays, serverVars
<1> QED  BY <1>b, <1>1, <1>2, <1>3, <1>4, <1>5

\* The page's requests leave the server alone.
LEMMA PageMoves ==
  ASSUME TypeOK, NEW r \in Run,
         ServeList(r) \/ ShowList(r) \/ ServeVerdict(r) \/ ShowVerdict(r) \/ RefreshFails(r)
  PROVE  /\ UNCHANGED serverVars /\ OthersStay(r)
         /\ pc[r] \in After /\ pc'[r] \in After
         /\ pc'[r] = "listSent" =>
              snapshot'[r] = SubSeq(cases, 1, IF Len(cases) > Limit THEN Limit ELSE Len(cases))
<1>a. /\ pc \in [Run -> Pc] /\ snapshot \in [Run -> Seq(Run)]
  BY DEF TypeOK
<1>1. UNCHANGED serverVars
  BY DEF ServeList, ShowList, ServeVerdict, ShowVerdict, RefreshFails
<1>2. UNCHANGED <<pending, result>>
  BY <1>1 DEF serverVars
<1>3. \E p \in After : pc' = [pc EXCEPT ![r] = p] /\ pc[r] \in After
  BY DEF ServeList, ShowList, ServeVerdict, ShowVerdict, RefreshFails, Goto, After
<1>4. /\ \E s : snapshot' = [snapshot EXCEPT ![r] = s] \/ snapshot' = snapshot
      /\ ServeList(r) \/ pc' = [pc EXCEPT ![r] = "listed"] \/ pc' = [pc EXCEPT ![r] = "verdictSent"]
         \/ pc' = [pc EXCEPT ![r] = "ended"]
  BY DEF ServeList, ShowList, ServeVerdict, ShowVerdict, RefreshFails, Goto
<1>5. OthersStay(r)
  BY <1>a, <1>2, <1>3, <1>4 DEF OthersStay
<1>6. pc'[r] = "listSent" =>
        snapshot'[r] = SubSeq(cases, 1, IF Len(cases) > Limit THEN Limit ELSE Len(cases))
  BY <1>a, <1>4 DEF ServeList
<1> QED  BY <1>a, <1>1, <1>3, <1>5, <1>6

\* A push puts its entry in the places of its run and type, and in no others.
LEMMA PlacesGrow ==
  ASSUME entries \in Seq(Entry), NEW e \in Entry, entries' = Append(entries, e),
         NEW r, NEW type
  PROVE  /\ e.content.run = r /\ e.content.type = type
              => Places(r, type)' = Places(r, type) \cup {Len(entries) + 1}
         /\ ~(e.content.run = r /\ e.content.type = type)
              => Places(r, type)' = Places(r, type)
         /\ Places(r, type) \subseteq 1..Len(entries)
<1>1. /\ Len(entries) \in Nat /\ Len(entries') = Len(entries) + 1
      /\ entries'[Len(entries) + 1] = e
      /\ \A i \in 1..Len(entries) : entries'[i] = entries[i]
  OBVIOUS
<1>2. 1..(Len(entries) + 1) = (1..Len(entries)) \cup {Len(entries) + 1}
      /\ Len(entries) + 1 \notin 1..Len(entries)
  BY <1>1
<1>3. Places(r, type)' = {i \in 1..(Len(entries) + 1) :
                           entries'[i].content.run = r /\ entries'[i].content.type = type}
  BY <1>1 DEF Places
<1>4. Places(r, type) \subseteq 1..Len(entries)
  BY DEF Places
<1>5. \A i \in 1..Len(entries) : i \in Places(r, type)' <=> i \in Places(r, type)
  BY <1>1, <1>2, <1>3 DEF Places
<1>6. Len(entries) + 1 \in Places(r, type)' <=>
        e.content.run = r /\ e.content.type = type
  BY <1>1, <1>2, <1>3
<1>7. Places(r, type)' \subseteq (1..Len(entries)) \cup {Len(entries) + 1}
  BY <1>2, <1>3
<1> HIDE DEF Places
<1>8. ASSUME e.content.run = r, e.content.type = type
      PROVE  Places(r, type)' = Places(r, type) \cup {Len(entries) + 1}
  BY <1>2, <1>4, <1>5, <1>6, <1>7, <1>8
<1>9. ASSUME ~(e.content.run = r /\ e.content.type = type)
      PROVE  Places(r, type)' = Places(r, type)
  BY <1>2, <1>4, <1>5, <1>6, <1>7, <1>9
<1> QED  BY <1>4, <1>8, <1>9

LEMMA FinishedGrows ==
  ASSUME finished \in Seq(Run), NEW r \in Run, finished' = Append(finished, r), NEW q \in Run
  PROVE  HasFinished(q)' <=> q = r \/ HasFinished(q)
<1>1. /\ Len(finished) \in Nat /\ Len(finished') = Len(finished) + 1
      /\ finished'[Len(finished) + 1] = r
      /\ \A i \in 1..Len(finished) : finished'[i] = finished[i]
  OBVIOUS
<1>2. 1..(Len(finished) + 1) = (1..Len(finished)) \cup {Len(finished) + 1}
  BY <1>1
<1> QED  BY <1>1, <1>2 DEF HasFinished

\* An entry keeps its place and its content.
LEMMA RecountedStays ==
  ASSUME entries \in Seq(Entry), NEW r, Recounted(r), result'[r] = result[r],
         \/ UNCHANGED entries
         \/ \E e \in Entry : entries' = Append(entries, e) /\ e.content.run # r
  PROVE  Recounted(r)'
<1>1. PICK i \in 1..Len(entries), j \in 1..Len(entries) :
        /\ i < j
        /\ Places(r, "case.opened") = {i} /\ Places(r, "case.closed") = {j}
        /\ entries[j].content = Closed(r, result[r])
  BY DEF Recounted
<1>2. Places(r, "case.opened")' = {i} /\ Places(r, "case.closed")' = {j}
  <2>1. CASE UNCHANGED entries
    BY <1>1, <2>1 DEF Places
  <2>2. CASE \E e \in Entry : entries' = Append(entries, e) /\ e.content.run # r
    BY <1>1, <2>2, PlacesGrow
  <2> QED  BY <2>1, <2>2
<1>3. i \in 1..Len(entries') /\ j \in 1..Len(entries') /\ entries'[j] = entries[j]
  OBVIOUS
<1>4. entries'[j].content = Closed(r, result[r])'
  BY <1>1, <1>3 DEF Closed
<1> QED  BY <1>1, <1>2, <1>3, <1>4 DEF Recounted

\* Other runs do not change what is told of a run.
LEMMA OtherTold ==
  ASSUME TypeOK, NEW q \in Run, Told(q), NEW r \in Run, r # q, OthersStay(r),
         \/ UNCHANGED entries
         \/ \E e \in Entry : entries' = Append(entries, e) /\ e.content.run = r,
         finished' = finished \/ finished' = Append(finished, r)
  PROVE  Told(q)'
<1>1. entries \in Seq(Entry) /\ finished \in Seq(Run)
  BY DEF TypeOK
<1>2. pc'[q] = pc[q] /\ pending'[q] = pending[q] /\ result'[q] = result[q]
  BY DEF OthersStay
<1>3. \A type : Places(q, type)' = Places(q, type)
  <2>1. CASE UNCHANGED entries
    BY <2>1 DEF Places
  <2>2. CASE \E e \in Entry : entries' = Append(entries, e) /\ e.content.run = r
    BY <1>1, <2>2, PlacesGrow
  <2> QED  BY <2>1, <2>2
<1>4. \A i \in 1..Len(entries) : i \in 1..Len(entries')
  BY <1>1
<1>5. HasFinished(q)' <=> HasFinished(q)
  <2>1. CASE finished' = finished
    BY <2>1 DEF HasFinished
  <2>2. CASE finished' = Append(finished, r)
    BY <1>1, <2>2, FinishedGrows
  <2> QED  BY <2>1, <2>2
<1>6. Recounted(q) => Recounted(q)'
  BY <1>1, <1>2, RecountedStays
<1>7. Closed(q, result[q])' = Closed(q, result[q])
  BY <1>2 DEF Closed
<1> QED  BY <1>2, <1>3, <1>4, <1>5, <1>6, <1>7 DEF Told

\* What is pushed is a receipt of the run that pushes it.
LEMMA PushTells ==
  ASSUME TypeOK, NEW r \in Run, Told(r), pc[r] \in {"opening", "closing"}
  PROVE  /\ pending[r][1] \in Entry /\ pending[r][1].content.run = r
         /\ pc[r] = "opening" => pending[r][1].content.type = "case.opened"
         /\ pc[r] = "closing" => pending[r][1].content.type = "case.closed"
BY PushTypes DEF Told, Opened, Closed

LEMMA OwnTold ==
  ASSUME TypeOK, NEW r \in Run, Told(r), Posts(r) \/ Opens(r) \/ Works(r) \/ Finishes(r)
  PROVE  Told(r)'
<1> DEFINE n == Len(entries)
           e == pending[r][1]
<1>1. entries \in Seq(Entry) /\ finished \in Seq(Run) /\ n \in Nat
  BY DEF TypeOK
<1>2. pc[r] \notin After => ~HasFinished(r)
  BY DEF Told
<1>3. Opened(r)' = Opened(r) /\ Closed(r, result[r])' = Closed(r, result'[r])
  BY DEF Opened, Closed
<1>4. CASE Posts(r)
  <2>1. \A type : Places(r, type)' = Places(r, type)
    BY <1>4 DEF Posts, Places
  <2>2. ~HasFinished(r)'
    BY <1>2, <1>4 DEF Posts, ListStays, HasFinished, After
  <2> QED  BY <1>3, <1>4, <2>1, <2>2 DEF Posts, Told
<1>5. CASE Opens(r)
  <2>1. /\ pc[r] = "opening" /\ entries' = Append(entries, e) /\ GoesOn(r)
        /\ e \in Entry /\ e.content.run = r /\ e.content.type = "case.opened"
    BY <1>5, PushTells DEF Opens
  <2>2. ~HasFinished(r)'
    BY <1>2, <1>5 DEF Opens, ListStays, HasFinished, After
  <2>3. Places(r, "case.opened") = {} /\ Places(r, "case.closed") = {}
    BY <2>1 DEF Told
  <2> HIDE DEF e
  <2>4. Places(r, "case.opened")' = {n + 1} /\ Places(r, "case.closed")' = {}
    BY <1>1, <2>1, <2>3, PlacesGrow
  <2>5. n + 1 \in 1..Len(entries')
    BY <1>1, <2>1
  <2> QED  BY <1>3, <2>1, <2>2, <2>4, <2>5 DEF GoesOn, Told
<1>6. CASE Works(r)
  <2>1. \A type : Places(r, type)' = Places(r, type)
    BY <1>6 DEF Works, Places
  <2>2. ~HasFinished(r)' /\ entries' = entries
    BY <1>2, <1>6 DEF Works, ListStays, HasFinished, After
  <2>3. /\ \E i \in 1..Len(entries) : Places(r, "case.opened") = {i}
        /\ Places(r, "case.closed") = {}
    BY <1>6 DEF Works, Told
  <2>4. GoesOn(r) \/ pc'[r] = "failed"
    BY <1>6 DEF Works
  <2> QED  BY <1>3, <2>1, <2>2, <2>3, <2>4 DEF GoesOn, Told
<1>7. CASE Finishes(r)
  <2>1. /\ pc[r] = "closing" /\ entries' = Append(entries, e)
        /\ pc'[r] = "answered" /\ result'[r] = result[r]
        /\ e \in Entry /\ e.content.run = r /\ e.content.type = "case.closed"
        /\ e.content = Closed(r, result[r])
    BY <1>7, PushTells DEF Finishes, Told
  <2>2. PICK i \in 1..n : Places(r, "case.opened") = {i}
    BY <2>1 DEF Told
  <2>3. Places(r, "case.closed") = {}
    BY <2>1 DEF Told
  <2> HIDE DEF e
  <2>4. Places(r, "case.opened")' = {i} /\ Places(r, "case.closed")' = {n + 1}
    BY <1>1, <2>1, <2>2, <2>3, PlacesGrow
  <2>5. i \in 1..Len(entries') /\ n + 1 \in 1..Len(entries') /\ i < n + 1
        /\ entries'[n + 1] = e
    BY <1>1, <2>1
  <2>6. entries'[n + 1].content = Closed(r, result[r])'
    BY <1>3, <2>1, <2>5
  <2>7. Recounted(r)'
    BY <2>4, <2>5, <2>6 DEF Recounted
  <2> QED  BY <2>1, <2>7 DEF Told, After
<1> QED  BY <1>4, <1>5, <1>6, <1>7

LEMMA InitTells == Init => TellingInv
<1> SUFFICES ASSUME Init, NEW r \in Run PROVE Told(r)
  BY DEF TellingInv
<1>1. Len(entries) = 0 /\ Len(finished) = 0 /\ pc[r] = "idle"
  BY DEF Init
<1>2. \A type : Places(r, type) = {}
  BY <1>1 DEF Places
<1>3. ~HasFinished(r)
  BY <1>1 DEF HasFinished
<1> QED  BY <1>1, <1>2, <1>3 DEF Told

LEMMA NextTells ==
  ASSUME TypeOK, TellingInv, [Next]_vars
  PROVE  TellingInv'
<1>1. CASE \E r \in Run : Post(r) \/ Open(r) \/ Triage(r) \/ Investigate(r) \/ Comply(r)
                          \/ Finish(r) \/ RunFails(r)
  <2>1. PICK r \in Run : Post(r) \/ Open(r) \/ Triage(r) \/ Investigate(r) \/ Comply(r)
                         \/ Finish(r) \/ RunFails(r)
    BY <1>1
  <2>2. OthersStay(r) /\ (Posts(r) \/ Opens(r) \/ Works(r) \/ Finishes(r)) /\ Told(r)
    BY <2>1, RunMoves DEF TellingInv
  <2>3. Told(r)'
    BY <2>2, OwnTold
  <2>4. /\ \/ UNCHANGED entries
           \/ \E e \in Entry : entries' = Append(entries, e) /\ e.content.run = r
        /\ finished' = finished \/ finished' = Append(finished, r)
    BY <2>2, PushTells DEF Posts, Opens, Works, Finishes, ListStays
  <2>5. ASSUME NEW q \in Run, q # r PROVE Told(q)'
    BY <2>2, <2>4, <2>5, OtherTold DEF TellingInv
  <2> QED  BY <2>3, <2>5 DEF TellingInv
<1>2. CASE \E r \in Run : ServeList(r) \/ ShowList(r) \/ ServeVerdict(r) \/ ShowVerdict(r)
                          \/ RefreshFails(r)
  <2>1. PICK r \in Run : ServeList(r) \/ ShowList(r) \/ ServeVerdict(r) \/ ShowVerdict(r)
                         \/ RefreshFails(r)
    BY <1>2
  <2>2. UNCHANGED serverVars /\ OthersStay(r) /\ pc[r] \in After /\ pc'[r] \in After
    BY <2>1, PageMoves
  <2>3. UNCHANGED <<entries, result, finished>>
    BY <2>2 DEF serverVars
  <2>4. ASSUME NEW q \in Run, q # r PROVE Told(q)'
    BY <2>2, <2>3, <2>4, OtherTold DEF TellingInv
  <2>5. Told(r)'
    <3>1. HasFinished(r)' => HasFinished(r)
      BY <2>3 DEF HasFinished
    <3>2. Recounted(r) => Recounted(r)'
      BY <2>3 DEF Recounted, Places, Closed
    <3> QED  BY <2>2, <3>1, <3>2 DEF TellingInv, Told, After
  <2> QED  BY <2>4, <2>5 DEF TellingInv
<1>3. CASE ColdStart
  <2> SUFFICES ASSUME NEW r \in Run PROVE Told(r)'
    BY DEF TellingInv
  <2>1. Len(entries') = 0 /\ Len(finished') = 0
    BY <1>3 DEF ColdStart
  <2>2. pc'[r] \notin {"opening", "triage", "investigation", "compliance", "closing"}
    BY <1>3 DEF ColdStart, AtServer
  <2>3. \A type : Places(r, type)' = {}
    BY <2>1 DEF Places
  <2>4. ~HasFinished(r)'
    BY <2>1 DEF HasFinished
  <2> QED  BY <2>2, <2>3, <2>4 DEF Told
<1>4. CASE UNCHANGED vars
  BY <1>4 DEF vars, serverVars, TellingInv, Told, HasFinished, Recounted, Places, Closed, Opened
<1> QED  BY <1>1, <1>2, <1>3, <1>4 DEF Next

-----------------------------------------------------------------------------
(* The case list: proofs *)

LEMMA CutIs ==
  ASSUME NEW s \in Seq(Run), NEW n \in Nat
  PROVE  LET t == SubSeq(s, 1, IF Len(s) > n THEN n ELSE Len(s))
         IN  /\ Len(t) = IF Len(s) > n THEN n ELSE Len(s)
             /\ \A k \in 1..Len(t) : k \in 1..Len(s) /\ t[k] = s[k]
<1> DEFINE m == IF Len(s) > n THEN n ELSE Len(s)
<1>1. m \in Nat /\ m <= Len(s) /\ Len(s) \in Nat
  OBVIOUS
<1> HIDE DEF m
<1>2. Len(SubSeq(s, 1, m)) = m /\ \A k \in 1..m : SubSeq(s, 1, m)[k] = s[k] /\ k \in 1..Len(s)
  BY <1>1
<1> QED  BY <1>2 DEF m

LEMMA NewestStays ==
  ASSUME NEW fin \in Seq(Run), NEW r \in Run, NEW s \in Seq(Run), NEW n \in 0..Len(fin),
         NEW most \in Nat, Newest(fin, s, n, most)
  PROVE  Newest(Append(fin, r), s, n, most)
<1>1. Len(s) \in Nat /\ Len(s) <= n /\ n \in Nat
  BY DEF Newest
<1>2. \A k \in 1..Len(s) : n + 1 - k \in 1..Len(fin)
  BY <1>1
<1>3. \A i \in 1..Len(fin) : Append(fin, r)[i] = fin[i]
  OBVIOUS
<1> QED  BY <1>2, <1>3 DEF Newest

\* Of the newest so many, the first so few are the newest.
LEMMA NewestCut ==
  ASSUME NEW fin \in Seq(Run), NEW s \in Seq(Run), NEW n \in Nat,
         Newest(fin, s, n, Capacity)
  PROVE  Newest(fin, SubSeq(s, 1, IF Len(s) > Limit THEN Limit ELSE Len(s)), n, Limit)
<1> DEFINE t == SubSeq(s, 1, IF Len(s) > Limit THEN Limit ELSE Len(s))
<1>1. Capacity \in Nat /\ Limit \in Nat /\ Limit <= Capacity
  BY ShowcaseAssumption
<1>2. /\ Len(t) = IF Len(s) > Limit THEN Limit ELSE Len(s)
      /\ \A k \in 1..Len(t) : k \in 1..Len(s) /\ t[k] = s[k]
  BY <1>1, CutIs
<1> HIDE DEF t
<1>3. Len(s) = IF n > Capacity THEN Capacity ELSE n
  BY DEF Newest
<1>4. Len(t) = IF n > Limit THEN Limit ELSE n
  BY <1>1, <1>2, <1>3
<1>5. \A k \in 1..Len(t) : t[k] = fin[n + 1 - k]
  BY <1>2 DEF Newest
<1> QED  BY <1>4, <1>5 DEF Newest, t

LEMMA NewestGrows ==
  ASSUME TypeOK, NEW r \in Run, Newest(finished, cases, Len(finished), Capacity),
         cases' = Recorded(r), finished' = Append(finished, r)
  PROVE  Newest(finished', cases', Len(finished'), Capacity)
<1> DEFINE s == <<r>> \o cases
           n == Len(finished)
<1>1. /\ Capacity \in Nat \ {0} /\ cases \in Seq(Run) /\ finished \in Seq(Run)
      /\ n \in Nat /\ Len(cases) \in Nat
  BY ShowcaseAssumption DEF TypeOK
<1>2. /\ s \in Seq(Run) /\ Len(s) = Len(cases) + 1 /\ s[1] = r
      /\ \A k \in 2..Len(s) : s[k] = cases[k - 1]
  BY <1>1
<1>3. /\ Len(finished') = n + 1 /\ finished'[n + 1] = r
      /\ \A i \in 1..n : finished'[i] = finished[i]
  BY <1>1
<1>4. /\ Len(cases') = IF Len(s) > Capacity THEN Capacity ELSE Len(s)
      /\ \A k \in 1..Len(cases') : k \in 1..Len(s) /\ cases'[k] = s[k]
  <2>1. cases' = SubSeq(s, 1, IF Len(s) > Capacity THEN Capacity ELSE Len(s))
    BY DEF Recorded
  <2> HIDE DEF s
  <2> QED  BY <1>1, <1>2, <2>1, CutIs
<1>5. /\ Len(cases) = IF n > Capacity THEN Capacity ELSE n
      /\ \A k \in 1..Len(cases) : cases[k] = finished[n + 1 - k]
  BY DEF Newest
<1> HIDE DEF s, n
<1>6. Len(cases') = IF n + 1 > Capacity THEN Capacity ELSE n + 1
  BY <1>1, <1>2, <1>4, <1>5
<1>7. ASSUME NEW k \in 1..Len(cases')
      PROVE  cases'[k] = finished'[(n + 1) + 1 - k]
  <2>1. k \in 1..Len(s) /\ cases'[k] = s[k]
    BY <1>4
  <2>2. CASE k = 1
    BY <1>1, <1>2, <1>3, <2>1, <2>2
  <2>3. CASE k # 1
    <3>1. k \in 2..Len(s) /\ k - 1 \in 1..Len(cases)
      BY <1>1, <1>2, <2>1, <2>3
    <3>2. s[k] = finished[n + 1 - (k - 1)]
      BY <1>2, <1>5, <3>1
    <3>3. n + 1 - (k - 1) = (n + 1) + 1 - k /\ n + 1 - (k - 1) \in 1..n
      BY <1>1, <1>5, <3>1
    <3> QED  BY <1>3, <2>1, <3>2, <3>3
  <2> QED  BY <2>2, <2>3
<1> QED  BY <1>3, <1>6, <1>7 DEF Newest

LEMMA NextLists ==
  ASSUME TypeOK, TypeOK', ListInv, [Next]_vars
  PROVE  ListInv'
<1>t. finished \in Seq(Run) /\ snapshot \in [Run -> Seq(Run)] /\ cases \in Seq(Run)
      /\ Limit \in Nat /\ Len(finished) \in Nat
  BY ShowcaseAssumption DEF TypeOK
<1>1. CASE \E r \in Run : Post(r) \/ Open(r) \/ Triage(r) \/ Investigate(r) \/ Comply(r)
                          \/ Finish(r) \/ RunFails(r)
  <2>1. PICK r \in Run : Post(r) \/ Open(r) \/ Triage(r) \/ Investigate(r) \/ Comply(r)
                         \/ Finish(r) \/ RunFails(r)
    BY <1>1
  <2>2. /\ OthersStay(r) /\ snapshot' = snapshot
        /\ Posts(r) \/ Opens(r) \/ Works(r) \/ Finishes(r)
    BY <2>1, RunMoves
  \* A run at the server has not finished.
  <2>3. pc[r] \notin After
    BY <2>2 DEF Posts, Opens, Works, Finishes, After
  <2>4. \A n \in 1..Len(finished) : finished[n] # r
    BY <2>3 DEF ListInv, Fetched
  <2>5. CASE ListStays
    <3>1. ASSUME NEW q \in Run PROVE Fetched(q)'
      <4>1. CASE q = r
        BY <2>4, <2>5, <4>1 DEF ListStays, Fetched
      <4>2. CASE q # r
        BY <2>2, <2>5, <4>2 DEF ListStays, ListInv, Fetched, OthersStay
      <4> QED  BY <4>1, <4>2
    <3> QED  BY <2>5, <3>1 DEF ListStays, ListInv
  <2>6. CASE Finishes(r)
    <3>1. /\ finished' = Append(finished, r) /\ cases' = Recorded(r) /\ pc'[r] = "answered"
      BY <2>6 DEF Finishes
    <3>2. Newest(finished', cases', Len(finished'), Capacity)
      BY <3>1, NewestGrows DEF ListInv
    <3>3. /\ Len(finished') = Len(finished) + 1 /\ finished'[Len(finished) + 1] = r
          /\ \A n \in 1..Len(finished) : finished'[n] = finished[n]
      BY <1>t, <3>1
    <3>4. ASSUME NEW q \in Run PROVE Fetched(q)'
      <4>1. CASE q = r
        BY <3>1, <4>1 DEF Fetched, After
      <4>2. ASSUME q # r, NEW n \in 1..Len(finished'), finished'[n] = q
            PROVE  /\ pc'[q] \in After
                   /\ pc'[q] = "listSent" =>
                        \E m \in n..Len(finished') : Newest(finished', snapshot'[q], m, Limit)
        <5>1. n \in 1..Len(finished) /\ finished[n] = q
          BY <1>t, <3>3, <4>2, SMTT(30)
        <5>2. pc'[q] = pc[q] /\ snapshot'[q] = snapshot[q]
          BY <2>2, <4>2 DEF OthersStay
        <5>3. pc[q] \in After /\
              (pc[q] = "listSent" =>
                 \E m \in n..Len(finished) : Newest(finished, snapshot[q], m, Limit))
          BY <5>1 DEF ListInv, Fetched
        <5>4. ASSUME pc[q] = "listSent"
              PROVE  \E m \in n..Len(finished') : Newest(finished', snapshot'[q], m, Limit)
          <6>1. PICK m \in n..Len(finished) : Newest(finished, snapshot[q], m, Limit)
            BY <5>3, <5>4
          <6>2. m \in 0..Len(finished) /\ snapshot[q] \in Seq(Run)
            BY <1>t, <5>1
          <6>3. Newest(finished', snapshot[q], m, Limit)
            BY <1>t, <3>1, <6>1, <6>2, NewestStays
          <6>4. m \in n..Len(finished')
            BY <1>t, <3>3
          <6> QED  BY <5>2, <6>3, <6>4
        <5> QED  BY <5>2, <5>3, <5>4
      <4> QED  BY <4>1, <4>2 DEF Fetched
    <3> QED  BY <3>2, <3>4 DEF ListInv
  <2> QED  BY <2>2, <2>5, <2>6 DEF Posts, Opens, Works
<1>2. CASE \E r \in Run : ServeList(r) \/ ShowList(r) \/ ServeVerdict(r) \/ ShowVerdict(r)
                          \/ RefreshFails(r)
  <2>1. PICK r \in Run : ServeList(r) \/ ShowList(r) \/ ServeVerdict(r) \/ ShowVerdict(r)
                         \/ RefreshFails(r)
    BY <1>2
  <2>2. /\ UNCHANGED serverVars /\ OthersStay(r) /\ pc'[r] \in After
        /\ pc'[r] = "listSent" =>
             snapshot'[r] = SubSeq(cases, 1, IF Len(cases) > Limit THEN Limit ELSE Len(cases))
    BY <2>1, PageMoves
  <2>3. finished' = finished /\ cases' = cases
    BY <2>2 DEF serverVars
  <2>4. Newest(finished, cases, Len(finished), Capacity)
    BY DEF ListInv
  <2>5. pc'[r] = "listSent" => Newest(finished, snapshot'[r], Len(finished), Limit)
    BY <1>t, <2>2, <2>4, NewestCut
  <2>6. Fetched(r)'
    <3>1. \A n \in 1..Len(finished) : Len(finished) \in n..Len(finished)
      BY <1>t
    <3> QED  BY <2>2, <2>3, <2>5, <3>1 DEF Fetched
  <2>7. ASSUME NEW q \in Run, q # r PROVE Fetched(q)'
    BY <2>2, <2>3, <2>7 DEF ListInv, Fetched, OthersStay
  <2> QED  BY <2>3, <2>4, <2>6, <2>7 DEF ListInv
<1>3. CASE ColdStart
  <2>1. finished' = <<>> /\ cases' = <<>> /\ Len(<<>>) = 0 /\ 0 <= Capacity
    BY <1>3, ShowcaseAssumption DEF ColdStart
  <2>2. ~(0 > Capacity)
    BY ShowcaseAssumption
  <2>3. 1..0 = {}
    OBVIOUS
  <2> QED  BY <2>1, <2>2, <2>3 DEF ListInv, Newest, Fetched
<1>4. CASE UNCHANGED vars
  BY <1>4 DEF vars, serverVars, pageVars, ListInv, Fetched
<1> QED  BY <1>1, <1>2, <1>3, <1>4 DEF Next

LEMMA InitLists == Init => ListInv
<1> SUFFICES ASSUME Init PROVE ListInv
  OBVIOUS
<1>1. finished = <<>> /\ cases = <<>> /\ Len(<<>>) = 0 /\ 1..0 = {}
  BY DEF Init
<1>2. ~(0 > Capacity)
  BY ShowcaseAssumption
<1> QED  BY <1>1, <1>2 DEF ListInv, Newest, Fetched

-----------------------------------------------------------------------------
LEMMA ReceiptsAndList == Spec => [](TypeOK /\ TellingInv /\ ListInv)
<1>1. Init => TypeOK /\ ChainInv /\ TellingInv /\ ListInv
  BY InitTypes, InitChain, InitTells, InitLists
<1>2. (TypeOK /\ ChainInv /\ TellingInv /\ ListInv) /\ [Next]_vars
        => (TypeOK /\ ChainInv /\ TellingInv /\ ListInv)'
  BY NextKeeps, NextTells, NextLists
<1>3. QED
  BY <1>1, <1>2, PTL DEF Spec

\* A run that was answered has both its receipts on the chain, each once and in order,
\* and the second tells its result, however its appends overlapped with others
\* (orchestrator.ts:45-115, route.ts:18-19).
THEOREM AnsweredRunsRecorded == Spec => []AnsweredIsRecorded
<1>1. TypeOK /\ TellingInv => AnsweredIsRecorded
  <2> SUFFICES ASSUME TypeOK, TellingInv, NEW n \in 1..Len(finished)
               PROVE  Recounted(finished[n])
    BY DEF AnsweredIsRecorded, Recounted
  <2>1. finished[n] \in Run
    BY DEF TypeOK
  <2> QED  BY <2>1 DEF TellingInv, Told, HasFinished
<1> QED  BY <1>1, ReceiptsAndList, PTL

\* The list a run fetches after its answer shows it, or is full of runs that finished
\* after it, whatever the capacity of the list and of an answer
\* (recentCases.ts:16-23, useLiveFeed.ts:104-112).
THEOREM OwnRunIsListed == Spec => []OwnRunListed
<1>1. TypeOK /\ ListInv => OwnRunListed
  <2> SUFFICES ASSUME TypeOK, ListInv, NEW r \in Run, NEW n \in 1..Len(finished),
                      pc[r] = "listSent", finished[n] = r
               PROVE  LET s == snapshot[r] IN
                      \/ \E k \in 1..Len(s) : s[k] = r
                      \/ /\ Len(s) = Limit
                         /\ \A k \in 1..Limit :
                              \E m \in (n + 1)..Len(finished) : finished[m] = s[k]
    BY DEF OwnRunListed
  <2>1. finished \in Seq(Run) /\ Len(finished) \in Nat /\ Limit \in Nat
    BY ShowcaseAssumption DEF TypeOK
  <2>2. PICK m \in n..Len(finished) : Newest(finished, snapshot[r], m, Limit)
    BY DEF ListInv, Fetched
  <2> DEFINE s == snapshot[r]
  <2>3. /\ Len(s) = IF m > Limit THEN Limit ELSE m
        /\ \A k \in 1..Len(s) : s[k] = finished[m + 1 - k]
    BY <2>2 DEF Newest
  <2> HIDE DEF s
  <2>4. CASE m + 1 - n <= Len(s)
    <3>1. m + 1 - n \in 1..Len(s) /\ m + 1 - (m + 1 - n) = n
      BY <2>1, <2>3, <2>4
    <3> QED  BY <2>3, <3>1 DEF s
  <2>5. CASE ~(m + 1 - n <= Len(s))
    <3>1. Len(s) = Limit
      BY <2>1, <2>3, <2>5
    <3>2. ASSUME NEW k \in 1..Limit
          PROVE  \E i \in (n + 1)..Len(finished) : finished[i] = s[k]
      <4>1. m + 1 - k \in (n + 1)..Len(finished)
        BY <2>1, <2>5, <3>1
      <4> QED  BY <2>3, <3>1, <4>1
    <3> QED  BY <3>1, <3>2 DEF s
  <2> QED  BY <2>4, <2>5
<1> QED  BY <1>1, ReceiptsAndList, PTL

=============================================================================
