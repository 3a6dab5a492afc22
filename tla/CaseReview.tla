------------------------------ MODULE CaseReview ------------------------------
(***************************************************************************)
(* The case review page (dashboard-web/src/lib/useCaseReview.ts) and the   *)
(* endpoints behind it (agents-python/app/main.py, db.py): cases run alone *)
(* or in batches, are saved and announced and answered, and the page       *)
(* fetches the list of saved cases for many reasons, one refresh            *)
(* overtaking another.                                                     *)
(*                                                                         *)
(* A job is one request. What a case goes through before it is saved is    *)
(* CasePipeline. A broadcast raises when a socket came or went during it:  *)
(* it iterates over the live set of sockets and awaits every send.         *)
(***************************************************************************)
EXTENDS Integers, Sequences, FiniteSets

CONSTANTS
  OwnJob,    \* requests of the page
  OtherJob,  \* of other clients, and cases of the synthetic loop
  Refresh,   \* refreshes the page may have under way at once
  runs,      \* the one that run and runBatch await
  BatchSize, \* 10
  Limit,     \* cases in an answer: 50
  Capacity,  \* of the store in memory: 500
  NoCase,
  MaxFaults  \* bound: lost answers, failed reads of the list and crashes

Job == OwnJob \cup OtherJob

ASSUME ReviewAssumption ==
  /\ OwnJob # {} /\ OwnJob \cap OtherJob = {} /\ runs \in Refresh
  /\ BatchSize \in Nat \ {0} /\ Limit \in Nat \ {0} /\ MaxFaults \in Nat
  /\ Capacity \in Nat /\ Capacity >= Limit
  /\ NoCase \notin Job \X (1..BatchSize)

VARIABLES
  job,     \* each request at the server
  storage, \* "postgres", or "memory" without a DATABASE_URL
  table,   \* all cases in the order they were saved
  kept,    \* how many of the newest the store has: the others are forgotten
  refresh, \* the list each refresh has read and not shown yet
  busy,    \* "no", or what run and runBatch await: "answer" or "list"
  posted,  \* the page's last request
  cases, selected, batch, \* what the page shows
  faults   \* bound

storeVars == <<storage, table, kept>>
serverVars == <<job, storeVars>>
shownVars == <<cases, selected, batch>>
pageVars == <<refresh, busy, posted, shownVars>>
vars == <<serverVars, pageVars, faults>>

Case == Job \X (1..BatchSize)
JobState == [pc : {"idle", "work", "save", "notify", "progress", "ok", "error"},
             kind : {"run", "batch", "plain"}, item : 1..BatchSize,
             results : SUBSET (1..BatchSize)]
Idle == [asked |-> FALSE, list |-> <<>>]
Fetch == [asked : BOOLEAN, list : Seq(Case)]

Fault == faults < MaxFaults /\ faults' = faults + 1

Least(m, n) == IF m < n THEN m ELSE n

\* INSERT, or appendleft to a deque of bounded length.
Stored(c) ==
  /\ table' = Append(table, c)
  /\ kept' = IF storage = "memory" THEN Least(kept + 1, Capacity) ELSE kept + 1
  /\ UNCHANGED storage

\* The newest first.
Recent == [i \in 1..Least(kept, Limit) |-> table[Len(table) + 1 - i]]

-----------------------------------------------------------------------------
(* A request at the server *)

Goto(j, p) == job' = [job EXCEPT ![j].pc = p]

\* One case is answered, or counted by its batch, which announces its progress.
CaseOver(j, results) ==
  job' = [job EXCEPT ![j].results = results,
                     ![j].pc = IF job[j].kind = "batch" THEN "progress"
                               ELSE IF results = {} THEN "error" ELSE "ok"]

CaseDone(j) == CaseOver(j, job[j].results \cup {job[j].item})
CaseFails(j) == CaseOver(j, job[j].results)

\* Scenario, rules, agents, payment and their broadcasts.
Work(j) ==
  /\ job[j].pc = "work"
  /\ Goto(j, "save") \/ CaseFails(j)
  /\ UNCHANGED <<storeVars, pageVars, faults>>

\* Mutant: a failed INSERT is ignored.
Save_Ignored(j) ==
  /\ job[j].pc = "save"
  /\ Stored(<<j, job[j].item>>) \/ UNCHANGED storeVars
  /\ Goto(j, "notify")
  /\ UNCHANGED <<pageVars, faults>>

Save(j) ==
  /\ job[j].pc = "save"
  /\ \/ Stored(<<j, job[j].item>>) /\ Goto(j, "notify")
     \/ storage = "postgres" /\ CaseFails(j) /\ UNCHANGED storeVars
  /\ UNCHANGED <<pageVars, faults>>

\* The broadcast of case_saved, which may raise although the case is saved.
Notify(j) ==
  /\ job[j].pc = "notify"
  /\ CaseDone(j) \/ CaseFails(j)
  /\ UNCHANGED <<storeVars, pageVars, faults>>

\* Mutant: the batch runs one case more.
Progress_OneMore(j) ==
  /\ job[j].pc = "progress"
  /\ \/ /\ job[j].item <= BatchSize
        /\ job' = [job EXCEPT ![j].pc = "work", ![j].item = @ + 1]
     \/ job[j].item > BatchSize /\ Goto(j, "ok")
     \/ Goto(j, "error")
  /\ UNCHANGED <<storeVars, pageVars, faults>>

\* The broadcast of batch_progress; nothing catches what it raises.
Progress(j) ==
  /\ job[j].pc = "progress"
  /\ \/ /\ job[j].item < BatchSize
        /\ job' = [job EXCEPT ![j].pc = "work", ![j].item = @ + 1]
     \/ job[j].item = BatchSize /\ Goto(j, "ok")
     \/ Goto(j, "error")
  /\ UNCHANGED <<storeVars, pageVars, faults>>

\* "plain" is /v1/pipeline/run and the synthetic loop, whose cases have no review;
\* of another client's batch the page sees its cases only.
OtherPosts(j, kind) ==
  /\ job[j].pc = "idle"
  /\ job' = [job EXCEPT ![j].pc = "work", ![j].kind = kind]
  /\ UNCHANGED <<storeVars, pageVars, faults>>

\* The Python process ends, and a store in memory with it; an INSERT under way may
\* still be carried out.
Crash ==
  /\ Fault
  /\ job' = [j \in Job |-> IF job[j].pc \in {"idle", "ok", "error"} THEN job[j]
                           ELSE [job[j] EXCEPT !.pc = "error"]]
  /\ \/ UNCHANGED <<storage, table>> /\ kept' = IF storage = "memory" THEN 0 ELSE kept
     \/ /\ storage = "postgres"
        /\ \E j \in Job : job[j].pc = "save" /\ Stored(<<j, job[j].item>>)
  /\ UNCHANGED pageVars

-----------------------------------------------------------------------------
(* The page *)

\* recent_cases is carried out some time before its answer; a refresh that was asked
\* for and not carried out yet shows nothing and needs no state.
Ask(r) ==
  /\ ~refresh[r].asked
  /\ refresh' = [refresh EXCEPT ![r] = [asked |-> TRUE, list |-> Recent]]

\* Mutant: the page fetches the list only while it is empty.
Poll_Once(r) ==
  /\ cases = <<>>
  /\ r # runs /\ Ask(r)
  /\ UNCHANGED <<serverVars, busy, posted, shownVars, faults>>

\* Every ten seconds; and the button, a socket that opens, and a case_saved message.
Poll(r) ==
  /\ r # runs /\ Ask(r)
  /\ UNCHANGED <<serverVars, busy, posted, shownVars, faults>>

\* The finally of the run that awaited this refresh.
Released(r) == busy' = IF r = runs THEN "no" ELSE busy

Reviewed(s) == {i \in 1..Len(s) : job[s[i][1]].kind # "plain"}

\* All answers of a refresh are there.
Settle(r) ==
  LET s == refresh[r].list IN
  /\ refresh[r].asked
  /\ refresh' = [refresh EXCEPT ![r] = Idle]
  /\ cases' = s
  /\ selected' = IF selected # NoCase \/ Reviewed(s) = {} THEN selected
                 ELSE s[CHOOSE i \in Reviewed(s) : \A k \in Reviewed(s) : i <= k]
  /\ Released(r)
  /\ UNCHANGED <<serverVars, posted, batch, faults>>

HistoryFails(r) ==
  /\ refresh[r].asked
  /\ Fault
  /\ refresh' = [refresh EXCEPT ![r] = Idle]
  /\ Released(r)
  /\ UNCHANGED <<serverVars, posted, shownVars>>

\* run or runBatch, one at a time.
Post(j, kind) ==
  /\ busy = "no" /\ busy' = "answer"
  /\ job[j].pc = "idle"
  /\ job' = [job EXCEPT ![j].pc = "work", ![j].kind = kind]
  /\ posted' = j
  /\ batch' = {}
  /\ UNCHANGED <<storeVars, refresh, cases, selected, faults>>

\* Mutant: a refresh that is under way is awaited instead of a new one.
AskAnew_Joins ==
  \/ \E q \in Refresh : /\ refresh[q].asked
                        /\ refresh' = [refresh EXCEPT ![runs] = refresh[q], ![q] = Idle]
  \/ (\A q \in Refresh : ~refresh[q].asked) /\ Ask(runs)

AskAnew == Ask(runs)

\* The answer of the page's request, and the refresh after it.
Answered ==
  LET results == job[posted].results
      last == CHOOSE i \in results : \A k \in results : k <= i
  IN  /\ busy = "answer" /\ job[posted].pc = "ok"
      /\ batch' = IF job[posted].kind = "batch" THEN {<<posted, i>> : i \in results} ELSE batch
      /\ selected' = IF results = {} THEN selected ELSE <<posted, last>>
      /\ AskAnew
      /\ busy' = "list"
      /\ UNCHANGED <<serverVars, posted, cases, faults>>

Refused ==
  /\ busy = "answer" /\ job[posted].pc = "error"
  /\ busy' = "no"
  /\ UNCHANGED <<serverVars, refresh, posted, shownVars, faults>>

\* The connection of the request is lost while the server goes on.
AnswerLost ==
  /\ busy = "answer"
  /\ Fault
  /\ busy' = "no"
  /\ UNCHANGED <<serverVars, refresh, posted, shownVars>>

Pick ==
  /\ \E c \in batch \cup {cases[i] : i \in 1..Len(cases)} : selected' = c
  /\ UNCHANGED <<serverVars, refresh, busy, posted, cases, batch, faults>>

-----------------------------------------------------------------------------

Init ==
  /\ job = [j \in Job |-> [pc |-> "idle", kind |-> "run", item |-> 1, results |-> {}]]
  /\ storage \in {"postgres", "memory"} /\ table = <<>> /\ kept = 0
  /\ refresh = [r \in Refresh |-> Idle]
  /\ busy = "no"
  /\ posted = CHOOSE j \in OwnJob : TRUE
  /\ cases = <<>> /\ selected = NoCase /\ batch = {}
  /\ faults = 0

JobStep(j) == Work(j) \/ Save(j) \/ Notify(j) \/ Progress(j)
Answer == Answered \/ Refused

Next ==
  \/ \E j \in Job : JobStep(j)
  \/ \E r \in Refresh : Poll(r) \/ Settle(r) \/ HistoryFails(r)
  \/ \E j \in OwnJob : \E kind \in {"run", "batch"} : Post(j, kind)
  \/ \E j \in OtherJob : \E kind \in {"run", "plain"} : OtherPosts(j, kind)
  \/ Answer \/ AnswerLost \/ Pick \/ Crash

Fairness ==
  /\ \A j \in Job : WF_vars(JobStep(j))
  /\ \A r \in Refresh : WF_vars(Settle(r))
  /\ WF_vars(\E r \in Refresh : Poll(r))
  /\ WF_vars(Answer)

Spec == Init /\ [][Next]_vars /\ Fairness

-----------------------------------------------------------------------------
(* Properties *)

\* Every variable has its type.
TypeOK ==
  /\ job \in [Job -> JobState]
  /\ storage \in {"postgres", "memory"}
  /\ table \in Seq(Case) /\ kept \in 0..Len(table)
  /\ refresh \in [Refresh -> Fetch]
  /\ busy \in {"no", "answer", "list"} /\ posted \in OwnJob
  /\ cases \in Seq(Case) /\ selected \in Case \cup {NoCase} /\ batch \subseteq Case
  /\ faults \in 0..MaxFaults

Saved == {table[i] : i \in 1..Len(table)}
Listed == {cases[i] : i \in 1..Len(cases)}

\* Whatever the page shows, in its list, as a selected case or as one of the "cases
\* saved" of a batch (FullDashboard.tsx:69), was saved, and only once: failed saves and
\* broadcasts, lost answers and crashes leave no case that only looks complete
\* (main.py:262-298).
ShownIsSaved ==
  /\ Listed \cup batch \cup ({selected} \ {NoCase}) \subseteq Saved
  /\ Cardinality(Saved) = Len(table)

\* A run that ends with its list lists its own cases, except those that as many newer
\* ones left no room for or that a store in memory lost with its process: no refresh
\* that was asked earlier and answers late stands in for the one after the run
\* (useCaseReview.ts:204-231).
OwnCaseListed ==
  [][Settle(runs) =>
       \A i \in job[posted].results :
         \/ <<posted, i>> \in Listed'
         \/ \E m \in 1..(Len(table) - kept) : table[m] = <<posted, i>>
         \/ /\ Len(cases') = Limit
            /\ \A c \in Listed' : \E m, n \in 1..Len(table) :
                 m < n /\ table[m] = <<posted, i>> /\ table[n] = c]_vars

\* Whatever announcements were missed and whatever answers came out of order, the page
\* ends up with the list of what is saved (useCaseReview.ts:112-135, 181).
ListSettles == <>[](cases = Recent)

=============================================================================
