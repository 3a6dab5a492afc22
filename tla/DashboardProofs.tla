-------------------------- MODULE DashboardProofs --------------------------
(***************************************************************************)
(* Theorems about the case review page and the endpoints behind it, for    *)
(* any requests, refreshes, batch sizes and limits: what the page shows    *)
(* was saved, once, and a run that ends with its list lists its own cases. *)
(* And about the live stream that tells the pages, for any pages, sockets  *)
(* and broadcasts: when a broadcast raises, and whom it reaches.           *)
(***************************************************************************)
EXTENDS CaseReview, Stream, FiniteSetTheorems, WellFoundedInduction, TLAPS

-----------------------------------------------------------------------------
(* What was saved, and by whom.                                             *)

CasesOf(s) == {s[i] : i \in 1..Len(s)}

\* A case is saved by its request at most once: it comes after those it saved.
SavedInTurn(j) ==
  \A i \in 1..BatchSize :
    <<j, i>> \in Saved =>
      /\ i <= job[j].item
      /\ i = job[j].item => job[j].pc \in {"notify", "progress", "ok", "error"}

\* A case that a request counts, or is about to, was saved.
CountsSaved(j) ==
  /\ \A i \in job[j].results : <<j, i>> \in Saved
  /\ job[j].pc = "notify" => <<j, job[j].item>> \in Saved

SavedInv ==
  /\ TypeOK
  /\ ShownIsSaved /\ IsFiniteSet(Saved)
  /\ \A r \in Refresh : CasesOf(refresh[r].list) \subseteq Saved
  /\ \A j \in Job : SavedInTurn(j) /\ CountsSaved(j)

-----------------------------------------------------------------------------
(* What the list after a run owes it.                                       *)

Forgotten(c) == \E m \in 1..(Len(table) - kept) : table[m] = c

\* The list is full of cases saved after this one.
CrowdedOut(c, s) ==
  /\ Len(s) = Limit
  /\ \A d \in CasesOf(s) : \E m \in 1..Len(table) :
                           \E n \in 1..Len(table) : m < n /\ table[m] = c /\ table[n] = d

\* The refresh that run and runBatch await was carried out after their request ended.
Owes ==
  /\ refresh[runs].asked => busy = "list"
  /\ busy = "list" =>
       /\ refresh[runs].asked /\ job[posted].pc = "ok"
       /\ \A i \in job[posted].results :
            LET c == <<posted, i>>
                s == refresh[runs].list
            IN  c \in CasesOf(s) \/ Forgotten(c) \/ CrowdedOut(c, s)

OwnInv == SavedInv /\ Owes

-----------------------------------------------------------------------------
(* Numbers and lists.                                                       *)

LEMMA LeastExists ==
  ASSUME NEW T, T \subseteq Nat, T # {}
  PROVE  \E x \in T : \A y \in T : x <= y
<1>1. PICK x \in T : \A y \in T : ~(<<y, x>> \in OpToRel(<, Nat))
  BY NatLessThanWellFounded, WFMin, Zenon
<1>2. ASSUME NEW y \in T
      PROVE  x <= y
  <2>1. ~(y < x)
    BY <1>1, Zenon DEF OpToRel
  <2>2. QED
    BY <2>1
<1>3. QED
  BY <1>2

LEMMA GreatestExists ==
  ASSUME NEW N \in Nat, NEW T, T \subseteq 1..N, T # {}
  PROVE  \E x \in T : \A y \in T : y <= x
<1> DEFINE U == {N - y : y \in T}
<1>1. U \subseteq Nat /\ U # {}
  <2>1. \A y \in T : N - y \in Nat
    OBVIOUS
  <2>2. PICK y \in T : TRUE
    OBVIOUS
  <2>3. N - y \in U
    OBVIOUS
  <2>4. QED
    BY <2>1, <2>3
<1>2. PICK u \in U : \A v \in U : u <= v
  BY <1>1, LeastExists
<1>3. PICK x \in T : u = N - x
  OBVIOUS
<1>4. ASSUME NEW y \in T
      PROVE  y <= x
  <2>1. N - y \in U
    OBVIOUS
  <2> HIDE DEF U
  <2>2. N - x <= N - y
    BY <1>2, <1>3, <2>1
  <2>3. x \in Nat /\ y \in Nat
    OBVIOUS
  <2>4. QED
    BY <2>2, <2>3
<1>5. QED
  BY <1>4

LEMMA RecentIs ==
  ASSUME TypeOK
  PROVE  /\ Recent \in Seq(Case) /\ Len(Recent) = Least(kept, Limit)
         /\ Least(kept, Limit) \in Nat
         /\ \A i \in 1..Len(Recent) : /\ Len(table) + 1 - i \in 1..Len(table)
                                      /\ Recent[i] = table[Len(table) + 1 - i]
<1>1. table \in Seq(Case) /\ Len(table) \in Nat /\ kept \in 0..Len(table) /\ Limit \in Nat
  BY ReviewAssumption DEF TypeOK
<1>2. Least(kept, Limit) \in Nat /\ Least(kept, Limit) <= Len(table)
  BY <1>1 DEF Least
<1> DEFINE n == Least(kept, Limit)
<1>3. n \in Nat /\ n <= Len(table)
  BY <1>2
<1> HIDE DEF n
<1>4. Recent = [i \in 1..n |-> table[Len(table) + 1 - i]]
  BY DEF Recent, n
<1>5. \A i \in 1..n : Len(table) + 1 - i \in 1..Len(table)
  BY <1>1, <1>3
<1>6. \A i \in 1..n : table[Len(table) + 1 - i] \in Case
  BY <1>1, <1>5
<1>7. Recent \in Seq(Case) /\ Len(Recent) = n
  BY <1>3, <1>4, <1>6
<1>8. QED
  BY <1>3, <1>4, <1>5, <1>7 DEF n

\* An insert puts one case behind the others, and may push the oldest out.
LEMMA StoredKeeps ==
  ASSUME TypeOK, NEW c \in Case, Stored(c)
  PROVE  /\ table' \in Seq(Case) /\ kept' \in 0..Len(table') /\ storage' = storage
         /\ Len(table') = Len(table) + 1
         /\ \A i \in 1..Len(table) : i \in 1..Len(table') /\ table'[i] = table[i]
         /\ table'[Len(table')] = c
         /\ \A i \in 1..Len(table') : i \in 1..Len(table) \/ i = Len(table')
         /\ Saved' = Saved \cup {c}
         /\ Len(table) - kept <= Len(table') - kept'
<1>1. /\ table \in Seq(Case) /\ Len(table) \in Nat /\ kept \in 0..Len(table)
      /\ Capacity \in Nat /\ table' = Append(table, c)
  BY ReviewAssumption DEF TypeOK, Stored
<1>2. /\ table' \in Seq(Case) /\ Len(table') = Len(table) + 1
      /\ \A i \in 1..Len(table) : table'[i] = table[i]
      /\ table'[Len(table) + 1] = c
  BY <1>1
<1>3. kept' \in 0..(Len(table) + 1) /\ kept' <= kept + 1
  BY <1>1 DEF Stored, Least
<1>4. /\ \A i \in 1..Len(table) : i \in 1..Len(table')
      /\ \A i \in 1..Len(table') : i \in 1..Len(table) \/ i = Len(table')
      /\ Len(table') \in 1..Len(table')
  BY <1>1, <1>2
<1>5. Saved' = Saved \cup {c}
  BY <1>2, <1>4 DEF Saved
<1>6. Len(table) - kept <= Len(table') - kept'
  BY <1>1, <1>2, <1>3
<1>7. QED
  BY <1>2, <1>3, <1>4, <1>5, <1>6 DEF Stored

-----------------------------------------------------------------------------
(* What a step may do to a request, to the table and to the page.           *)

Over == {"progress", "ok", "error"}

Moves(j) ==
  LET From(P, Q) == job[j].pc \in P /\ job'[j].pc \in Q
      Same == job'[j].item = job[j].item /\ job'[j].results = job[j].results
  IN  \/ job'[j].pc = job[j].pc /\ Same
      \/ From({"idle"}, {"work"}) /\ Same
      \/ From({"work"}, {"save"} \cup Over) /\ Same
      \/ From({"save"}, {"notify"}) /\ <<j, job[j].item>> \in Saved' /\ Same
      \/ From({"save"}, Over) /\ Same
      \/ /\ From({"notify"}, Over) /\ job'[j].item = job[j].item
         /\ job'[j].results \in {job[j].results, job[j].results \cup {job[j].item}}
      \/ /\ From({"progress"}, {"work"})
         /\ job'[j].item = job[j].item + 1 /\ job'[j].results = job[j].results
      \/ From({"progress"}, {"ok"}) /\ Same
      \/ From({"work", "save", "notify", "progress"}, {"error"}) /\ Same

\* The table is left alone, or a request stores its case.
Rests == table' = table /\ storage' = storage /\ kept' \in {kept, 0}
Stores(j) ==
  /\ Stored(<<j, job[j].item>>)
  /\ job[j].pc = "save" /\ job'[j].pc \in {"notify", "error"}

\* A request's own step.
LEMMA OverMoves ==
  ASSUME TypeOK, NEW j \in Job, NEW results \in SUBSET (1..BatchSize), CaseOver(j, results)
  PROVE  /\ job' \in [Job -> JobState]
         /\ \A i \in Job : i # j => job'[i] = job[i]
         /\ job'[j].pc \in Over /\ job'[j].item = job[j].item /\ job'[j].results = results
<1>1. job \in [Job -> JobState]
  BY DEF TypeOK
<1> DEFINE p == IF job[j].kind = "batch" THEN "progress" ELSE IF results = {} THEN "error" ELSE "ok"
<1>2. p \in {"progress", "ok", "error"}
  OBVIOUS
<1> HIDE DEF p
<1>3. job' = [job EXCEPT ![j].results = results, ![j].pc = p]
  BY DEF CaseOver, p
<1>4. QED
  BY <1>1, <1>2, <1>3 DEF JobState, Over

LEMMA GotoMoves ==
  ASSUME TypeOK, NEW j \in Job, NEW p, Goto(j, p),
         p \in {"idle", "work", "save", "notify", "progress", "ok", "error"}
  PROVE  /\ job' \in [Job -> JobState]
         /\ \A i \in Job : i # j => job'[i] = job[i]
         /\ job'[j].pc = p /\ job'[j].item = job[j].item /\ job'[j].results = job[j].results
  BY DEF TypeOK, Goto, JobState

LEMMA JobsGo ==
  ASSUME TypeOK, [Next]_vars
  PROVE  /\ job' \in [Job -> JobState] /\ \A j \in Job : Moves(j)
         /\ Rests \/ \E j \in Job : Stores(j)
<1>a. /\ job \in [Job -> JobState] /\ kept \in Nat /\ table \in Seq(Case)
      /\ \A j \in Job : /\ job[j].item \in 1..BatchSize
                        /\ job[j].results \subseteq 1..BatchSize
                        /\ job[j].results \cup {job[j].item} \subseteq 1..BatchSize
                        /\ <<j, job[j].item>> \in Case
  BY DEF TypeOK, JobState, Case
<1>b. UNCHANGED storeVars => Rests
  BY DEF storeVars, Rests
<1>1. ASSUME NEW j \in Job, Work(j)
      PROVE  /\ job' \in [Job -> JobState] /\ \A i \in Job : Moves(i)
             /\ Rests
  <2>1. job[j].pc = "work" /\ UNCHANGED storeVars
    BY <1>1 DEF Work
  <2>2. CASE Goto(j, "save")
    BY <1>b, <2>1, <2>2, GotoMoves DEF Moves
  <2>3. CASE CaseFails(j)
    BY <1>a, <1>b, <2>1, <2>3, OverMoves DEF CaseFails, Moves
  <2>4. QED
    BY <1>1, <2>2, <2>3 DEF Work
<1>2. ASSUME NEW j \in Job, Save(j)
      PROVE  /\ job' \in [Job -> JobState] /\ \A i \in Job : Moves(i)
             /\ Rests \/ \E i \in Job : Stores(i)
  <2>1. job[j].pc = "save"
    BY <1>2 DEF Save
  <2>2. CASE Stored(<<j, job[j].item>>) /\ Goto(j, "notify")
    <3>1. /\ job' \in [Job -> JobState]
          /\ \A i \in Job : i # j => job'[i] = job[i]
          /\ job'[j].pc = "notify" /\ job'[j].item = job[j].item
          /\ job'[j].results = job[j].results
      BY <2>2, GotoMoves
    <3>2. <<j, job[j].item>> \in Saved'
      BY <1>a, <2>2, StoredKeeps
    <3>3. QED
      BY <2>1, <2>2, <3>1, <3>2 DEF Moves, Stores
  <2>3. CASE CaseFails(j) /\ UNCHANGED storeVars
    BY <1>a, <1>b, <2>1, <2>3, OverMoves DEF CaseFails, Moves
  <2>4. QED
    BY <1>2, <2>2, <2>3 DEF Save
<1>3. ASSUME NEW j \in Job, Notify(j)
      PROVE  /\ job' \in [Job -> JobState] /\ \A i \in Job : Moves(i)
             /\ Rests
  <2>1. job[j].pc = "notify" /\ UNCHANGED storeVars
    BY <1>3 DEF Notify
  <2>2. PICK results \in {job[j].results, job[j].results \cup {job[j].item}} :
          CaseOver(j, results)
    BY <1>3 DEF Notify, CaseDone, CaseFails
  <2>3. results \in SUBSET (1..BatchSize)
    BY <1>a
  <2>4. QED
    BY <1>b, <2>1, <2>2, <2>3, OverMoves DEF Moves
<1>4. ASSUME NEW j \in Job, Progress(j)
      PROVE  /\ job' \in [Job -> JobState] /\ \A i \in Job : Moves(i)
             /\ Rests
  <2>1. job[j].pc = "progress" /\ UNCHANGED storeVars
    BY <1>4 DEF Progress
  <2>2. CASE Goto(j, "ok") \/ Goto(j, "error")
    BY <1>b, <2>1, <2>2, GotoMoves DEF Moves
  <2>3. CASE job[j].item < BatchSize
             /\ job' = [job EXCEPT ![j].pc = "work", ![j].item = @ + 1]
    <3>a. /\ job[j].item \in 1..BatchSize /\ BatchSize \in Nat
          /\ job[j].item < BatchSize
      BY <1>a, <2>3, ReviewAssumption
    <3>1. job[j].item + 1 \in 1..BatchSize
      BY <3>a
    <3>2. /\ job' \in [Job -> JobState]
          /\ \A i \in Job : i # j => job'[i] = job[i]
          /\ job'[j].pc = "work" /\ job'[j].item = job[j].item + 1
          /\ job'[j].results = job[j].results
      BY <1>a, <2>3, <3>1 DEF JobState
    <3>3. QED
      BY <1>b, <2>1, <3>2 DEF Moves
  <2>4. QED
    BY <1>4, <2>2, <2>3 DEF Progress
<1>5. ASSUME NEW j \in Job, NEW kind \in {"run", "batch", "plain"}, job[j].pc = "idle",
             job' = [job EXCEPT ![j].pc = "work", ![j].kind = kind], UNCHANGED storeVars
      PROVE  /\ job' \in [Job -> JobState] /\ \A i \in Job : Moves(i)
             /\ Rests
  <2>1. /\ job' \in [Job -> JobState]
        /\ \A i \in Job : i # j => job'[i] = job[i]
        /\ job'[j].pc = "work" /\ job'[j].item = job[j].item
        /\ job'[j].results = job[j].results
    BY <1>a, <1>5, ZenonT(30) DEF JobState
  <2>2. QED
    BY <1>b, <1>5, <2>1 DEF Moves
<1>6. CASE Crash
  <2>1. \A j \in Job : job'[j] = IF job[j].pc \in {"idle", "ok", "error"} THEN job[j]
                                 ELSE [job[j] EXCEPT !.pc = "error"]
    BY <1>6 DEF Crash
  <2>2. \A j \in Job : [job[j] EXCEPT !.pc = "error"] \in JobState
    BY <1>a DEF JobState
  <2>3. job' \in [Job -> JobState]
    <3>1. job' = [j \in Job |-> IF job[j].pc \in {"idle", "ok", "error"} THEN job[j]
                                ELSE [job[j] EXCEPT !.pc = "error"]]
      BY <1>6 DEF Crash
    <3>2. QED
      BY <1>a, <2>2, <3>1
  <2>4. \A j \in Job : Moves(j)
    BY <1>a, <2>1, ZenonT(30) DEF Moves, JobState
  <2>5. Rests \/ \E j \in Job : job[j].pc = "save" /\ Stored(<<j, job[j].item>>)
    BY <1>6 DEF Crash, Rests
  <2>6. \A j \in Job : job[j].pc = "save" => job'[j].pc = "error"
    BY <1>a, <2>1 DEF JobState
  <2>7. QED
    BY <2>3, <2>4, <2>5, <2>6 DEF Stores
<1>7. CASE job' = job /\ UNCHANGED storeVars
  BY <1>a, <1>b, <1>7 DEF Moves
<1>8. ASSUME NEW j \in OwnJob, NEW kind \in {"run", "batch"}, Post(j, kind)
      PROVE  /\ job[j].pc = "idle" /\ UNCHANGED storeVars
             /\ job' = [job EXCEPT ![j].pc = "work", ![j].kind = kind]
  BY <1>8 DEF Post
<1>9. ASSUME NEW j \in OtherJob, NEW kind \in {"run", "plain"}, OtherPosts(j, kind)
      PROVE  /\ job[j].pc = "idle" /\ UNCHANGED storeVars
             /\ job' = [job EXCEPT ![j].pc = "work", ![j].kind = kind]
  BY <1>9 DEF OtherPosts
<1>10. ASSUME \/ \E r \in Refresh : Poll(r) \/ Settle(r) \/ HistoryFails(r)
              \/ Answer \/ AnswerLost \/ Pick \/ UNCHANGED vars
       PROVE  job' = job /\ UNCHANGED storeVars
  BY <1>10 DEF Poll, Settle, HistoryFails, Answer, Answered, Refused, AnswerLost, Pick, vars,
               serverVars
<1>11. QED
  BY <1>1, <1>2, <1>3, <1>4, <1>5, <1>6, <1>7, <1>8, <1>9, <1>10 DEF Next, JobStep, Job

\* Where what is shown comes from.
Sources ==
  Listed \cup batch \cup {selected} \cup (UNION {CasesOf(refresh[r].list) : r \in Refresh})
    \cup {<<posted, i>> : i \in job[posted].results}

PageGoes ==
  /\ Listed' \cup batch' \cup {selected'} \subseteq Sources
  /\ cases' = cases \/ \E r \in Refresh : cases' = refresh[r].list
  /\ \A r \in Refresh :
       refresh'[r] \in {refresh[r], Idle, [asked |-> TRUE, list |-> Recent]}
  /\ refresh' \in [Refresh -> Fetch]
  /\ busy' \in {"no", "answer", "list"} /\ posted' \in OwnJob

LEMMA AskGoes ==
  ASSUME TypeOK, NEW r \in Refresh, Ask(r)
  PROVE  /\ \A q \in Refresh : refresh'[q] \in {refresh[q], [asked |-> TRUE, list |-> Recent]}
         /\ refresh'[r] = [asked |-> TRUE, list |-> Recent]
         /\ refresh' \in [Refresh -> Fetch] /\ ~refresh[r].asked
<1>1. [asked |-> TRUE, list |-> Recent] \in Fetch
  BY RecentIs DEF Fetch
<1>2. refresh \in [Refresh -> Fetch]
  BY DEF TypeOK
<1>3. refresh' = [refresh EXCEPT ![r] = [asked |-> TRUE, list |-> Recent]]
  BY DEF Ask
<1>4. QED
  BY <1>1, <1>2, <1>3 DEF Ask

\* The page shows a list it fetched, and what it selects is a case of that list.
LEMMA SettleGoes ==
  ASSUME TypeOK, NEW r \in Refresh, Settle(r)
  PROVE  PageGoes
<1> DEFINE s == refresh[r].list
<1>a. refresh \in [Refresh -> Fetch] /\ s \in Seq(Case) /\ Idle \in Fetch /\ Len(s) \in Nat
  BY DEF TypeOK, Fetch, Idle
<1>b. refresh' = [refresh EXCEPT ![r] = Idle] /\ cases' = s /\ batch' = batch /\ posted' = posted
  BY DEF Settle, Released
<1>1. Listed' = CasesOf(s)
  BY <1>b DEF Listed, CasesOf
<1>2. selected' = selected \/ selected' \in CasesOf(s)
  <2>1. CASE selected # NoCase \/ Reviewed(s) = {}
    BY <2>1 DEF Settle
  <2>2. CASE ~(selected # NoCase \/ Reviewed(s) = {})
    <3>a. Reviewed(s) \subseteq 1..Len(s)
      BY Zenon DEF Reviewed
    <3>b. 1..Len(s) \subseteq Nat
      BY <1>a
    <3>1. /\ Reviewed(s) # {} /\ Reviewed(s) \subseteq Nat /\ Reviewed(s) \subseteq 1..Len(s)
      BY <2>2, <3>a, <3>b, Zenon
    <3>2. \E i \in Reviewed(s) : \A k \in Reviewed(s) : i <= k
      BY <3>1, LeastExists
    <3>3. PICK i \in Reviewed(s) : selected' = s[i]
      BY <2>2, <3>2 DEF Settle
    <3>4. QED
      BY <3>1, <3>3 DEF CasesOf
  <2>3. QED
    BY <2>1, <2>2
<1>3. CasesOf(s) \subseteq Sources /\ batch \subseteq Sources /\ selected \in Sources
  BY DEF Sources
<1>4. Listed' \cup batch' \cup {selected'} \subseteq Sources
  BY <1>1, <1>2, <1>3, <1>b
<1>5. /\ \A q \in Refresh : refresh'[q] \in {refresh[q], Idle}
      /\ refresh' \in [Refresh -> Fetch]
  BY <1>a, <1>b
<1>6. busy' \in {"no", "answer", "list"} /\ posted' \in OwnJob
  BY <1>b DEF TypeOK, Settle, Released
<1>7. QED
  BY <1>4, <1>5, <1>6, <1>b DEF PageGoes

LEMMA AnsweredGoes ==
  ASSUME TypeOK, Answered
  PROVE  PageGoes
<1> DEFINE results == job[posted].results
<1>a. /\ results \subseteq 1..BatchSize /\ BatchSize \in Nat /\ runs \in Refresh
      /\ posted' = posted /\ posted \in OwnJob
  BY ReviewAssumption DEF TypeOK, JobState, Job, Answered
<1>b. /\ \A q \in Refresh : refresh'[q] \in {refresh[q], [asked |-> TRUE, list |-> Recent]}
      /\ refresh' \in [Refresh -> Fetch]
  BY <1>a, AskGoes DEF Answered, AskAnew
<1>1. selected' = selected \/ \E i \in results : selected' = <<posted, i>>
  <2>1. CASE results = {}
    BY <2>1 DEF Answered
  <2>2. CASE results # {}
    <3>1. \E i \in results : \A k \in results : k <= i
      BY <1>a, <2>2, GreatestExists
    <3>2. selected' = <<posted, CHOOSE i \in results : \A k \in results : k <= i>>
      BY <2>2 DEF Answered
    <3>3. QED
      BY <3>1, <3>2
  <2>3. QED
    BY <2>1, <2>2
<1>2. batch' = batch \/ batch' = {<<posted, i>> : i \in results}
  BY DEF Answered
<1>3. Listed' = Listed /\ cases' = cases /\ busy' = "list"
  BY DEF Answered, Listed
<1>4. Listed' \cup batch' \cup {selected'} \subseteq Sources
  BY <1>1, <1>2, <1>3 DEF Sources
<1>5. QED
  BY <1>a, <1>b, <1>3, <1>4 DEF PageGoes

LEMMA PageMoves ==
  ASSUME TypeOK, [Next]_vars
  PROVE  PageGoes
<1>a. /\ refresh \in [Refresh -> Fetch] /\ Idle \in Fetch
      /\ busy \in {"no", "answer", "list"} /\ posted \in OwnJob
  BY DEF TypeOK, Fetch, Idle
<1>b. Listed \cup batch \cup {selected} \subseteq Sources
  BY DEF Sources
<1>1. ASSUME UNCHANGED shownVars, posted' \in OwnJob, busy' \in {"no", "answer", "list"},
             refresh' = refresh \/ \E r \in Refresh : refresh' = [refresh EXCEPT ![r] = Idle]
      PROVE  PageGoes
  <2>1. Listed' = Listed /\ batch' = batch /\ selected' = selected /\ cases' = cases
    BY <1>1 DEF shownVars, Listed
  <2>2. /\ refresh' \in [Refresh -> Fetch]
        /\ \A r \in Refresh : refresh'[r] \in {refresh[r], Idle}
    BY <1>a, <1>1
  <2>3. QED
    BY <1>b, <1>1, <2>1, <2>2 DEF PageGoes
<1>2. ASSUME NEW r \in Refresh, Poll(r)
      PROVE  PageGoes
  <2>1. UNCHANGED shownVars /\ UNCHANGED <<busy, posted>> /\ Ask(r)
    BY <1>2 DEF Poll
  <2>2. Listed' = Listed /\ batch' = batch /\ selected' = selected /\ cases' = cases
    BY <2>1 DEF shownVars, Listed
  <2>3. QED
    BY <1>a, <1>b, <2>1, <2>2, AskGoes DEF PageGoes
<1>3. ASSUME NEW r \in Refresh, HistoryFails(r)
      PROVE  PageGoes
  BY <1>a, <1>1, <1>3 DEF HistoryFails, Released
<1>4. ASSUME NEW j \in OwnJob, NEW kind, Post(j, kind)
      PROVE  PageGoes
  <2>1. /\ Listed' = Listed /\ batch' = {} /\ selected' = selected /\ cases' = cases
        /\ refresh' = refresh /\ posted' = j /\ busy' = "answer"
    BY <1>4 DEF Post, Listed
  <2>2. QED
    BY <1>a, <1>b, <2>1 DEF PageGoes
<1>5. CASE Refused \/ AnswerLost
  <2>1. UNCHANGED shownVars /\ posted' = posted /\ busy' = "no" /\ refresh' = refresh
    BY <1>5 DEF Refused, AnswerLost
  <2>2. QED
    BY <1>a, <1>1, <2>1
<1>6. CASE Pick
  <2>1. selected' \in batch \cup Listed
    BY <1>6 DEF Pick, Listed
  <2>2. /\ Listed' = Listed /\ batch' = batch /\ cases' = cases
        /\ refresh' = refresh /\ posted' = posted /\ busy' = busy
    BY <1>6 DEF Pick, Listed
  <2>3. QED
    BY <1>a, <1>b, <2>1, <2>2 DEF PageGoes
<1>7. ASSUME UNCHANGED pageVars
      PROVE  PageGoes
  BY <1>a, <1>1, <1>7 DEF pageVars
<1>8. ASSUME NEW j \in Job, JobStep(j)
      PROVE  UNCHANGED pageVars
  BY <1>8 DEF JobStep, Work, Save, Notify, Progress
<1>9. ASSUME NEW j \in OtherJob, NEW kind, OtherPosts(j, kind)
      PROVE  UNCHANGED pageVars
  BY <1>9 DEF OtherPosts
<1>10. Crash \/ UNCHANGED vars => UNCHANGED pageVars
  BY DEF Crash, vars
<1>11. QED
  BY <1>2, <1>3, <1>4, <1>5, <1>6, <1>7, <1>8, <1>9, <1>10, SettleGoes, AnsweredGoes
  DEF Next, Answer

\* A batch that is shown is shown on, or its request has just been answered.
LEMMA BatchMoves ==
  ASSUME [Next]_vars
  PROVE  batch' \subseteq batch \/ batch' = {<<posted, i>> : i \in job[posted].results}
<1>1. ASSUME NEW j \in Job, JobStep(j)
      PROVE  batch' = batch
  BY <1>1 DEF JobStep, Work, Save, Notify, Progress, pageVars, shownVars
<1>2. ASSUME NEW r \in Refresh, Poll(r) \/ Settle(r) \/ HistoryFails(r)
      PROVE  batch' = batch
  BY <1>2 DEF Poll, Settle, HistoryFails, shownVars
<1>3. ASSUME NEW j, NEW kind, Post(j, kind) \/ OtherPosts(j, kind)
      PROVE  batch' \subseteq batch
  BY <1>3 DEF Post, OtherPosts, pageVars, shownVars
<1>4. CASE Answered
  BY <1>4 DEF Answered
<1>5. CASE Refused \/ AnswerLost \/ Pick \/ Crash \/ UNCHANGED vars
  BY <1>5 DEF Refused, AnswerLost, Pick, Crash, vars, pageVars, shownVars
<1>6. QED
  BY <1>1, <1>2, <1>3, <1>4, <1>5 DEF Next, Answer

LEMMA FaultMoves ==
  ASSUME TypeOK, [Next]_vars
  PROVE  faults' \in 0..MaxFaults
<1>a. faults \in 0..MaxFaults /\ MaxFaults \in Nat
  BY ReviewAssumption DEF TypeOK
<1>b. Fault => faults' \in 0..MaxFaults
  BY <1>a DEF Fault
<1>1. ASSUME NEW j \in Job, JobStep(j)
      PROVE  faults' = faults
  BY <1>1 DEF JobStep, Work, Save, Notify, Progress
<1>2. ASSUME NEW r \in Refresh, Poll(r) \/ Settle(r)
      PROVE  faults' = faults
  BY <1>2 DEF Poll, Settle
<1>3. ASSUME NEW r \in Refresh, HistoryFails(r)
      PROVE  Fault
  BY <1>3 DEF HistoryFails
<1>4. ASSUME NEW j, NEW kind, Post(j, kind) \/ OtherPosts(j, kind)
      PROVE  faults' = faults
  BY <1>4 DEF Post, OtherPosts
<1>5. AnswerLost \/ Crash => Fault
  BY DEF AnswerLost, Crash
<1>6. Answer \/ Pick \/ UNCHANGED vars => faults' = faults
  BY DEF Answer, Answered, Refused, Pick, vars
<1>7. QED
  BY <1>a, <1>b, <1>1, <1>2, <1>3, <1>4, <1>5, <1>6 DEF Next

-----------------------------------------------------------------------------
(* What is shown was saved.                                                 *)

LEMMA StepTypes ==
  ASSUME TypeOK, [Next]_vars
  PROVE  TypeOK'
<1>a. /\ cases \in Seq(Case) /\ selected \in Case \cup {NoCase} /\ batch \subseteq Case
      /\ refresh \in [Refresh -> Fetch] /\ posted \in OwnJob
      /\ \A r \in Refresh : refresh[r].list \in Seq(Case)
      /\ job[posted].results \subseteq 1..BatchSize
  BY DEF TypeOK, Fetch, JobState, Job
<1>1. job' \in [Job -> JobState]
  BY JobsGo
<1>2. /\ storage' \in {"postgres", "memory"}
      /\ table' \in Seq(Case) /\ kept' \in 0..Len(table')
  <2>1. CASE Rests
    BY <2>1 DEF Rests, TypeOK
  <2>2. CASE \E j \in Job : Stores(j)
    <3>1. PICK j \in Job : Stored(<<j, job[j].item>>)
      BY <2>2 DEF Stores
    <3>2. <<j, job[j].item>> \in Case
      BY DEF TypeOK, JobState, Case
    <3>3. QED
      BY <3>1, <3>2, StoredKeeps DEF TypeOK
  <2>3. QED
    BY <2>1, <2>2, JobsGo
<1>3. Sources \subseteq Case \cup {NoCase}
  <2>1. Listed \subseteq Case
    BY <1>a DEF Listed
  <2>2. \A r \in Refresh : CasesOf(refresh[r].list) \subseteq Case
    BY <1>a DEF CasesOf
  <2>3. {<<posted, i>> : i \in job[posted].results} \subseteq Case
    BY <1>a DEF Case, Job
  <2>4. QED
    BY <1>a, <2>1, <2>2, <2>3 DEF Sources
<1>4. cases' \in Seq(Case)
  BY <1>a, PageMoves DEF PageGoes
<1>5. batch' \subseteq Case /\ selected' \in Case \cup {NoCase}
  <2>1. selected' \in Case \cup {NoCase}
    BY <1>3, PageMoves DEF PageGoes
  <2>2. CASE batch' \subseteq batch
    BY <1>a, <2>1, <2>2
  <2>3. CASE batch' = {<<posted, i>> : i \in job[posted].results}
    BY <1>a, <2>1, <2>3 DEF Case, Job
  <2>4. QED
    BY <2>1, <2>2, <2>3, BatchMoves
<1>6. faults' \in 0..MaxFaults
  BY FaultMoves
<1>7. QED
  BY <1>1, <1>2, <1>4, <1>5, <1>6, PageMoves DEF PageGoes, TypeOK

LEMMA InitTypes == Init => SavedInv
<1> SUFFICES ASSUME Init PROVE SavedInv
  OBVIOUS
<1>1. (CHOOSE j \in OwnJob : TRUE) \in OwnJob
  BY ReviewAssumption
<1>2. 1 \in 1..BatchSize /\ 0 \in 0..MaxFaults /\ BatchSize \in Nat
  BY ReviewAssumption
<1>3. table = <<>> /\ cases = <<>> /\ batch = {} /\ selected = NoCase /\ kept = 0
  BY DEF Init
<1>4. TypeOK
  BY <1>1, <1>2 DEF Init, TypeOK, JobState, Fetch, Idle
<1>5. Saved = {} /\ Listed = {}
  BY <1>3 DEF Saved, Listed
<1>6. ShownIsSaved /\ IsFiniteSet(Saved)
  BY <1>3, <1>5, FS_EmptySet DEF ShownIsSaved
<1>7. \A r \in Refresh : CasesOf(refresh[r].list) = {}
  BY DEF Init, Idle, CasesOf
<1>8. \A j \in Job : SavedInTurn(j) /\ CountsSaved(j)
  BY <1>5 DEF Init, SavedInTurn, CountsSaved
<1>9. QED
  BY <1>4, <1>6, <1>7, <1>8 DEF SavedInv

\* Every variable has its type.
THEOREM ReviewTypes == Spec => []TypeOK
<1>1. Init => TypeOK
  BY InitTypes DEF SavedInv
<1>2. TypeOK /\ [Next]_vars => TypeOK'
  BY StepTypes
<1>3. QED
  BY <1>1, <1>2, PTL DEF Spec

\* What is in the table stays, and a case that is stored is new.
LEMMA TableGoes ==
  ASSUME SavedInv, [Next]_vars
  PROVE  /\ Saved \subseteq Saved'
         /\ \/ Saved' = Saved /\ Len(table') = Len(table)
            \/ \E j \in Job : /\ <<j, job[j].item>> \notin Saved
                              /\ Saved' = Saved \cup {<<j, job[j].item>>}
                              /\ Len(table') = Len(table) + 1
                              /\ job[j].pc = "save" /\ job'[j].pc \in {"notify", "error"}
<1>a. TypeOK
  BY DEF SavedInv
<1>1. CASE Rests
  BY <1>1 DEF Rests, Saved
<1>2. CASE \E j \in Job : Stores(j)
  <2>1. PICK j \in Job : Stores(j)
    BY <1>2
  <2>2. <<j, job[j].item>> \in Case /\ job[j].item \in 1..BatchSize
    BY <1>a DEF TypeOK, JobState, Case
  <2>3. Saved' = Saved \cup {<<j, job[j].item>>} /\ Len(table') = Len(table) + 1
    BY <1>a, <2>1, <2>2, StoredKeeps DEF Stores
  <2>4. <<j, job[j].item>> \notin Saved
    BY <2>1, <2>2 DEF Stores, SavedInv, SavedInTurn
  <2>5. QED
    BY <2>1, <2>3, <2>4 DEF Stores
<1>3. QED
  BY <1>a, <1>1, <1>2, JobsGo

LEMMA RecentIsSaved ==
  ASSUME TypeOK
  PROVE  CasesOf(Recent) \subseteq Saved
  BY RecentIs DEF CasesOf, Saved

LEMMA SourcesAreSaved ==
  ASSUME SavedInv
  PROVE  Sources \subseteq Saved \cup {NoCase}
<1>1. Listed \cup batch \cup ({selected} \ {NoCase}) \subseteq Saved
  BY DEF SavedInv, ShownIsSaved
<1>2. \A r \in Refresh : CasesOf(refresh[r].list) \subseteq Saved
  BY DEF SavedInv
<1>3. {<<posted, i>> : i \in job[posted].results} \subseteq Saved
  BY DEF SavedInv, CountsSaved, TypeOK, Job
<1>4. QED
  BY <1>1, <1>2, <1>3 DEF Sources

LEMMA ShownStep ==
  ASSUME SavedInv, [Next]_vars
  PROVE  ShownIsSaved' /\ IsFiniteSet(Saved')
<1>a. TypeOK /\ TypeOK' /\ Saved \subseteq Saved'
  BY StepTypes, TableGoes DEF SavedInv
<1>1. Listed' \cup batch' \subseteq Case /\ NoCase \notin Case
  BY <1>a, ReviewAssumption DEF TypeOK, Listed, Case
<1>2. Listed' \cup batch' \cup {selected'} \subseteq Saved \cup {NoCase}
  BY <1>a, PageMoves, SourcesAreSaved DEF PageGoes
<1>3. Listed' \cup batch' \cup ({selected'} \ {NoCase}) \subseteq Saved'
  BY <1>a, <1>1, <1>2
<1>4. IsFiniteSet(Saved) /\ Cardinality(Saved) = Len(table)
  BY DEF SavedInv, ShownIsSaved
<1>5. IsFiniteSet(Saved') /\ Cardinality(Saved') = Len(table')
  <2>1. CASE Saved' = Saved /\ Len(table') = Len(table)
    BY <1>4, <2>1
  <2>2. CASE \E c : c \notin Saved /\ Saved' = Saved \cup {c} /\ Len(table') = Len(table) + 1
    BY <1>4, <2>2, FS_AddElement
  <2>3. QED
    BY <2>1, <2>2, TableGoes
<1>6. QED
  BY <1>3, <1>5 DEF ShownIsSaved

LEMMA SavedStep ==
  ASSUME SavedInv, [Next]_vars
  PROVE  SavedInv'
<1>a. TypeOK /\ TypeOK' /\ Saved \subseteq Saved'
  BY StepTypes, TableGoes DEF SavedInv
<1>1. ASSUME NEW r \in Refresh
      PROVE  CasesOf(refresh'[r].list) \subseteq Saved'
  <2>1. CasesOf(Recent) \subseteq Saved /\ CasesOf(refresh[r].list) \subseteq Saved
    BY <1>a, RecentIsSaved DEF SavedInv
  <2>2. CasesOf(Idle.list) = {}
    BY DEF Idle, CasesOf
  <2>3. refresh'[r] \in {refresh[r], Idle, [asked |-> TRUE, list |-> Recent]}
    BY <1>a, PageMoves DEF PageGoes
  <2>4. QED
    BY <1>a, <2>1, <2>2, <2>3
<1>2. ASSUME NEW j \in Job
      PROVE  SavedInTurn(j)' /\ CountsSaved(j)'
  <2>a. /\ Moves(j) /\ SavedInTurn(j) /\ CountsSaved(j)
        /\ job[j].item \in 1..BatchSize /\ BatchSize \in Nat
        /\ job[j].results \subseteq 1..BatchSize
    BY <1>a, JobsGo, ReviewAssumption DEF SavedInv, TypeOK, JobState
  <2>1. ASSUME NEW i \in 1..BatchSize, <<j, i>> \in Saved'
        PROVE  /\ i <= job'[j].item
               /\ i = job'[j].item => job'[j].pc \in {"notify", "progress", "ok", "error"}
    <3>1. CASE <<j, i>> \in Saved
      <4>1. /\ i <= job[j].item
            /\ i = job[j].item => job[j].pc \in {"notify", "progress", "ok", "error"}
        BY <2>a, <3>1 DEF SavedInTurn
      <4>2. QED
        BY <2>a, <4>1 DEF Moves, Over
    <3>2. CASE <<j, i>> \notin Saved
      <4>1. PICK k \in Job : /\ Saved' = Saved \cup {<<k, job[k].item>>}
                             /\ job[k].pc = "save" /\ job'[k].pc \in {"notify", "error"}
        BY <2>1, <3>2, TableGoes
      <4>2. k = j /\ i = job[j].item
        BY <2>1, <3>2, <4>1
      <4>3. QED
        BY <2>a, <4>1, <4>2 DEF Moves, Over
    <3>3. QED
      BY <3>1, <3>2
  <2>2. job'[j].pc = "notify" => <<j, job'[j].item>> \in Saved'
    BY <1>a, <2>a DEF Moves, Over, CountsSaved
  <2>3. \A i \in job'[j].results : <<j, i>> \in Saved'
    BY <1>a, <2>a DEF Moves, Over, CountsSaved
  <2>4. QED
    BY <2>1, <2>2, <2>3 DEF SavedInTurn, CountsSaved
<1>3. QED
  BY <1>a, <1>1, <1>2, ShownStep DEF SavedInv

\* Whatever the page shows was saved, and saved once, for any number of requests,
\* refreshes that overtake each other, failed saves and crashes.
THEOREM ShownWasSaved == Spec => []ShownIsSaved
<1>1. SavedInv => ShownIsSaved
  BY DEF SavedInv
<1>2. QED
  BY <1>1, InitTypes, SavedStep, PTL DEF Spec

-----------------------------------------------------------------------------
(* The list after a run.                                                    *)

LEMMA TableStays ==
  ASSUME TypeOK, [Next]_vars
  PROVE  /\ \A i \in 1..Len(table) : i \in 1..Len(table') /\ table'[i] = table[i]
         /\ Len(table) \in Nat /\ Len(table') \in Nat
         /\ Len(table) - kept <= Len(table') - kept'
<1>a. table \in Seq(Case) /\ Len(table) \in Nat /\ kept \in 0..Len(table)
  BY DEF TypeOK
<1>1. CASE Rests
  BY <1>a, <1>1 DEF Rests
<1>2. CASE \E j \in Job : Stores(j)
  <2>1. PICK j \in Job : Stored(<<j, job[j].item>>)
    BY <1>2 DEF Stores
  <2>2. <<j, job[j].item>> \in Case
    BY DEF TypeOK, JobState, Case
  <2>3. /\ Len(table') = Len(table) + 1
        /\ \A i \in 1..Len(table) : i \in 1..Len(table') /\ table'[i] = table[i]
        /\ Len(table) - kept <= Len(table') - kept'
    BY <2>1, <2>2, StoredKeeps
  <2>4. QED
    BY <1>a, <2>3
<1>3. QED
  BY <1>1, <1>2, JobsGo

LEMMA ExcuseStays ==
  ASSUME TypeOK, [Next]_vars, NEW c, NEW s
  PROVE  /\ Forgotten(c) => Forgotten(c)'
         /\ CrowdedOut(c, s) => CrowdedOut(c, s)'
<1>a. /\ \A i \in 1..Len(table) : i \in 1..Len(table') /\ table'[i] = table[i]
      /\ Len(table) \in Nat /\ Len(table') \in Nat /\ kept \in Nat
      /\ Len(table) - kept <= Len(table') - kept'
      /\ kept' \in Nat
  BY TableStays, StepTypes DEF TypeOK
<1>1. ASSUME Forgotten(c)
      PROVE  Forgotten(c)'
  <2>1. PICK m \in 1..(Len(table) - kept) : table[m] = c
    BY <1>1 DEF Forgotten
  <2>2. m \in 1..Len(table) /\ m \in 1..(Len(table') - kept')
    BY <1>a
  <2>3. QED
    BY <1>a, <2>1, <2>2 DEF Forgotten
<1>2. CrowdedOut(c, s) => CrowdedOut(c, s)'
  BY <1>a DEF CrowdedOut, CasesOf
<1>3. QED
  BY <1>1, <1>2

\* Of what is saved, a list lacks only what is forgotten or older than all it holds.
LEMMA RecentLacks ==
  ASSUME TypeOK, NEW c \in Saved
  PROVE  c \in CasesOf(Recent) \/ Forgotten(c) \/ CrowdedOut(c, Recent)
<1>a. Len(table) \in Nat /\ kept \in 0..Len(table) /\ Limit \in Nat
  BY ReviewAssumption DEF TypeOK
<1>1. PICK m \in 1..Len(table) : table[m] = c
  BY DEF Saved
<1> DEFINE k == Len(table) + 1 - m
<1>2. CASE m <= Len(table) - kept
  BY <1>a, <1>1, <1>2 DEF Forgotten
<1>3. CASE m > Len(table) - kept /\ k <= Limit
  <2>1. k \in 1..Least(kept, Limit) /\ Len(table) + 1 - k = m
    BY <1>a, <1>3 DEF Least
  <2>2. k \in 1..Len(Recent) /\ Recent[k] = c
    BY <1>1, <2>1, RecentIs
  <2>3. QED
    BY <2>2 DEF CasesOf
<1>4. CASE m > Len(table) - kept /\ k > Limit
  <2>1. Least(kept, Limit) = Limit
    BY <1>a, <1>4 DEF Least
  <2>2. Len(Recent) = Limit
    BY <2>1, RecentIs
  <2>3. ASSUME NEW i \in 1..Len(Recent)
        PROVE  /\ Len(table) + 1 - i \in 1..Len(table) /\ m < Len(table) + 1 - i
               /\ table[Len(table) + 1 - i] = Recent[i]
    <3>1. i <= Limit
      BY <1>a, <2>2
    <3>2. QED
      BY <1>a, <1>4, <3>1, RecentIs
  <2>4. \A d \in CasesOf(Recent) :
          \E n \in 1..Len(table) : m < n /\ table[m] = c /\ table[n] = d
    BY <1>1, <2>3 DEF CasesOf
  <2>5. QED
    BY <2>2, <2>4 DEF CrowdedOut
<1>5. QED
  BY <1>a, <1>2, <1>3, <1>4

\* The awaited refresh is asked for by the answer only, and released by its own end.
LEMMA AwaitGoes ==
  ASSUME TypeOK, [Next]_vars, ~Answered
  PROVE  /\ busy' = "list" =>
              busy = "list" /\ refresh'[runs] = refresh[runs] /\ posted' = posted
         /\ refresh'[runs].asked => refresh[runs].asked /\ (busy' = busy \/ busy # "list")
<1>a. refresh \in [Refresh -> Fetch] /\ runs \in Refresh
  BY ReviewAssumption DEF TypeOK
<1>1. ASSUME NEW r \in Refresh, r # runs, Poll(r) \/ Settle(r) \/ HistoryFails(r)
      PROVE  refresh'[runs] = refresh[runs] /\ busy' = busy /\ posted' = posted
  <2>1. \E f : refresh' = [refresh EXCEPT ![r] = f]
    BY <1>1 DEF Poll, Settle, HistoryFails, Ask
  <2>2. busy' = busy /\ posted' = posted
    BY <1>1 DEF Poll, Settle, HistoryFails, Released
  <2>3. QED
    BY <1>a, <1>1, <2>1, <2>2
<1>2. CASE Settle(runs) \/ HistoryFails(runs)
  <2>1. refresh' = [refresh EXCEPT ![runs] = Idle] /\ busy' = "no"
    BY <1>2 DEF Settle, HistoryFails, Released
  <2>2. refresh'[runs] = Idle
    BY <1>a, <2>1
  <2>3. QED
    BY <2>1, <2>2 DEF Idle
<1>3. ~Poll(runs)
  BY DEF Poll
<1>4. ASSUME NEW j \in OwnJob, NEW kind, Post(j, kind)
      PROVE  busy' = "answer" /\ refresh' = refresh /\ busy = "no"
  BY <1>4 DEF Post
<1>5. Refused \/ AnswerLost => busy' = "no" /\ refresh' = refresh /\ busy = "answer"
  BY DEF Refused, AnswerLost
<1>6. Pick \/ Crash \/ UNCHANGED vars => refresh' = refresh /\ busy' = busy /\ posted' = posted
  BY DEF Pick, Crash, vars, pageVars
<1>7. ASSUME NEW j \in Job, NEW kind, JobStep(j) \/ OtherPosts(j, kind)
      PROVE  refresh' = refresh /\ busy' = busy /\ posted' = posted
  BY <1>7 DEF JobStep, Work, Save, Notify, Progress, OtherPosts, pageVars
<1>8. QED
  BY <1>1, <1>2, <1>3, <1>4, <1>5, <1>6, <1>7 DEF Next, Answer, Job

LEMMA OwesStep ==
  ASSUME OwnInv, [Next]_vars
  PROVE  Owes'
<1>a. TypeOK /\ SavedInv /\ Owes /\ posted \in Job
  BY DEF OwnInv, SavedInv, TypeOK, Job
<1>1. CASE Answered
  <2>1. /\ job' = job /\ table' = table /\ kept' = kept /\ posted' = posted /\ busy' = "list"
        /\ job[posted].pc = "ok"
    BY <1>1 DEF Answered, serverVars, storeVars
  <2>2. refresh'[runs] = [asked |-> TRUE, list |-> Recent]
    BY <1>a, <1>1, AskGoes, ReviewAssumption DEF Answered, AskAnew
  <2>3. \A i \in job[posted].results : <<posted, i>> \in Saved
    BY <1>a DEF SavedInv, CountsSaved
  <2>4. ASSUME NEW i \in job[posted].results
        PROVE  \/ <<posted, i>> \in CasesOf(Recent)
               \/ Forgotten(<<posted, i>>)'
               \/ /\ Len(Recent) = Limit
                  /\ \A d \in CasesOf(Recent) :
                       \E m \in 1..Len(table') : \E n \in 1..Len(table') :
                         m < n /\ table'[m] = <<posted, i>> /\ table'[n] = d
    BY <1>a, <2>1, <2>3, RecentLacks DEF Forgotten, CrowdedOut
  <2>5. ASSUME NEW i \in job'[posted'].results
        PROVE  \/ <<posted', i>> \in CasesOf(refresh'[runs].list)
               \/ Forgotten(<<posted, i>>)'
               \/ CrowdedOut(<<posted, i>>, refresh[runs].list)'
    <3>1. i \in job[posted].results /\ refresh'[runs].list = Recent /\ posted' = posted
      BY <2>1, <2>2, <2>5
    <3>2. CasesOf(refresh[runs].list)' = CasesOf(Recent) /\ Len(refresh'[runs].list) = Len(Recent)
      BY <3>1 DEF CasesOf
    <3>3. CASE /\ Len(Recent) = Limit
               /\ \A d \in CasesOf(Recent) :
                    \E m \in 1..Len(table') : \E n \in 1..Len(table') :
                      m < n /\ table'[m] = <<posted, i>> /\ table'[n] = d
      BY <3>1, <3>2, <3>3 DEF CrowdedOut
    <3>4. CASE <<posted, i>> \in CasesOf(Recent)
      BY <3>1, <3>4
    <3>5. QED
      BY <2>4, <3>1, <3>3, <3>4
  <2>6. refresh'[runs].asked /\ busy' = "list" /\ job'[posted'].pc = "ok"
    BY <2>1, <2>2
  <2>7. QED
    BY <2>1, <2>5, <2>6 DEF Owes
<1>2. CASE ~Answered
  <2>1. refresh'[runs].asked => busy' = "list"
    BY <1>a, <1>2, AwaitGoes DEF Owes
  <2>2. ASSUME busy' = "list"
        PROVE  /\ busy = "list" /\ refresh'[runs] = refresh[runs] /\ posted' = posted
               /\ refresh[runs].asked /\ job[posted].pc = "ok"
               /\ job'[posted].pc = "ok" /\ job'[posted].results = job[posted].results
    <3>1. busy = "list" /\ refresh'[runs] = refresh[runs] /\ posted' = posted
      BY <1>a, <1>2, <2>2, AwaitGoes
    <3>2. refresh[runs].asked /\ job[posted].pc = "ok"
      BY <1>a, <3>1 DEF Owes
    <3>3. Moves(posted)
      BY <1>a, JobsGo
    <3>4. QED
      BY <3>1, <3>2, <3>3 DEF Moves, Over
  <2>3. ASSUME busy' = "list", NEW i \in job[posted].results
        PROVE  \/ <<posted, i>> \in CasesOf(refresh[runs].list)
               \/ Forgotten(<<posted, i>>)'
               \/ CrowdedOut(<<posted, i>>, refresh[runs].list)'
    <3> DEFINE c == <<posted, i>>
               s == refresh[runs].list
    <3>1. c \in CasesOf(s) \/ Forgotten(c) \/ CrowdedOut(c, s)
      BY <1>a, <2>2, <2>3 DEF Owes
    <3>2. QED
      BY <1>a, <2>2, <2>3, <3>1, ExcuseStays
  <2>4. QED
    BY <2>1, <2>2, <2>3 DEF Owes
<1>3. QED
  BY <1>1, <1>2

\* A run that ends with its list lists its own cases, but for those that newer ones left
\* no room for or that a store in memory forgot, for any limit, capacity and traffic.
THEOREM OwnCaseIsListed == Spec => OwnCaseListed
<1>1. Init => OwnInv
  <2>1. Init => Owes
    BY ReviewAssumption DEF Init, Owes, Idle
  <2>2. QED
    BY <2>1, InitTypes DEF OwnInv
<1>2. OwnInv /\ [Next]_vars => OwnInv'
  BY SavedStep, OwesStep DEF OwnInv
<1>3. OwnInv /\ [Next]_vars =>
        [Settle(runs) =>
           \A i \in job[posted].results :
             \/ <<posted, i>> \in Listed'
             \/ \E m \in 1..(Len(table) - kept) : table[m] = <<posted, i>>
             \/ /\ Len(cases') = Limit
                /\ \A c \in Listed' : \E m, n \in 1..Len(table) :
                     m < n /\ table[m] = <<posted, i>> /\ table[n] = c]_vars
  <2> SUFFICES ASSUME OwnInv, Settle(runs), NEW i \in job[posted].results
               PROVE  \/ <<posted, i>> \in Listed'
                      \/ \E m \in 1..(Len(table) - kept) : table[m] = <<posted, i>>
                      \/ /\ Len(cases') = Limit
                         /\ \A c \in Listed' : \E m, n \in 1..Len(table) :
                              m < n /\ table[m] = <<posted, i>> /\ table[n] = c
    OBVIOUS
  <2>1. refresh[runs].asked /\ cases' = refresh[runs].list
    BY DEF Settle
  <2>2. Listed' = CasesOf(refresh[runs].list)
    BY <2>1 DEF Listed, CasesOf
  <2>3. \/ <<posted, i>> \in CasesOf(refresh[runs].list)
        \/ Forgotten(<<posted, i>>)
        \/ CrowdedOut(<<posted, i>>, refresh[runs].list)
    BY <2>1 DEF OwnInv, Owes
  <2>4. QED
    BY <2>1, <2>2, <2>3 DEF Forgotten, CrowdedOut
<1>4. QED
  BY <1>1, <1>2, <1>3, PTL DEF Spec, OwnCaseListed

-----------------------------------------------------------------------------
(* The stream that tells the same pages of saved cases. *)

\* A broadcast that waits, over the members there are now: nobody disturbed it and
\* the size is what it was, and whoever was there all the while is met or to be met.
Undisturbed(c, members) == c.stirred = "no" => Cardinality(members) = c.size
MeetsAll(c) == c.stirred # "joined" => c.whole \subseteq c.ahead \cup c.tried

CastInv(c, members) ==
  /\ c \in Cast
  /\ Active(c) => Undisturbed(c, members) /\ MeetsAll(c) /\ c.to \in Socket
  /\ c.at = "raised" => c.stirred # "no"
  /\ c.at = "returned" /\ c.stirred # "joined" => c.whole \subseteq c.tried

StreamInv ==
  /\ connections \subseteq Socket /\ IsFiniteSet(connections)
  /\ cast \in [Caller -> Cast]
  /\ \A b \in Caller : CastInv(cast[b], connections)

LEMMA IdlingIsCast == Idling \in Cast
BY DEF Idling, Cast

\* The iterator goes on, ends the broadcast, or raises because the size has changed.
LEMMA TurnKeeps ==
  ASSUME NEW members, members \subseteq Socket,
         NEW c \in Cast, Undisturbed(c, members), MeetsAll(c),
         NEW d \in Turn(c, members)
  PROVE  /\ CastInv(d, members) /\ d.dead \subseteq Socket
         /\ d.at = "returned" => CastInv([d EXCEPT !.dead = {}], members)
<1>a. /\ c.stirred \in {"no", "left", "joined"} /\ c.ahead \subseteq Socket
      /\ c.dead \subseteq Socket /\ c.whole \subseteq Socket
      /\ c.tried \subseteq Socket /\ c.size \in Nat
  BY DEF Cast
<1>1. CASE Cardinality(members) # c.size
  <2>1. d = [Idling EXCEPT !.at = "raised", !.stirred = c.stirred]
    BY <1>1 DEF Turn
  <2>2. /\ d \in Cast /\ d.at = "raised" /\ d.stirred = c.stirred /\ d.dead = {}
    BY <1>a, <2>1 DEF Idling, Cast
  <2>3. c.stirred # "no"
    BY <1>1 DEF Undisturbed
  <2> QED  BY <2>2, <2>3 DEF CastInv, Active
<1>2. CASE Cardinality(members) = c.size /\ c.ahead = {}
  <2>1. d = [Idling EXCEPT !.at = "returned", !.stirred = c.stirred, !.dead = c.dead,
                                !.whole = c.whole \ c.tried]
    BY <1>2 DEF Turn
  <2>2. /\ d \in Cast /\ d.at = "returned" /\ d.stirred = c.stirred /\ d.dead = c.dead
        /\ d.whole = c.whole \ c.tried
    BY <1>a, <2>1 DEF Idling, Cast
  <2>3. c.stirred # "joined" => d.whole = {}
    BY <1>2, <2>2 DEF MeetsAll
  <2>4. CastInv(d, members)
    BY <2>2, <2>3 DEF CastInv, Active
  <2> DEFINE e == [d EXCEPT !.dead = {}]
  <2>5. e \in Cast /\ e.at = "returned" /\ e.stirred = d.stirred /\ e.whole = d.whole
    BY <2>2 DEF Cast
  <2> HIDE DEF e
  <2>6. CastInv(e, members)
    BY <2>2, <2>3, <2>5 DEF CastInv, Active
  <2> QED  BY <1>a, <2>2, <2>4, <2>6 DEF e
<1>3. CASE Cardinality(members) = c.size /\ c.ahead # {}
  <2>1. PICK s \in c.ahead :
          d = [c EXCEPT !.at = "sending", !.to = s, !.ahead = @ \ {s}, !.tried = @ \cup {s}]
    BY <1>3 DEF Turn
  <2>2. /\ d \in Cast /\ d.at = "sending" /\ d.stirred = c.stirred /\ d.size = c.size
        /\ d.ahead = c.ahead \ {s} /\ d.tried = c.tried \cup {s} /\ d.whole = c.whole
        /\ d.dead = c.dead
    BY <1>a, <2>1 DEF Cast
  <2>3. Undisturbed(d, members)
    BY <1>3, <2>2 DEF Undisturbed
  <2>4. MeetsAll(d)
    BY <2>2 DEF MeetsAll
  <2>5. d.to = s /\ d.dead \subseteq Socket /\ s \in Socket
    BY <1>a, <2>1, <2>2 DEF Cast
  <2> QED  BY <2>2, <2>3, <2>4, <2>5 DEF CastInv, Active
<1> QED  BY <1>1, <1>2, <1>3

\* Losing members disturbs a broadcast, and what it is still to meet is left of them.
LEMMA ShrunkKeeps ==
  ASSUME NEW S, NEW c, CastInv(c, connections)
  PROVE  CastInv(Shrunk(c, S), connections \ S)
<1> DEFINE d == Shrunk(c, S)
<1>a. c \in Cast /\ c.stirred \in {"no", "left", "joined"}
  BY DEF CastInv, Cast
<1>1. CASE ~Active(c)
  <2>1. d = c
    BY <1>1 DEF Shrunk
  <2> QED  BY <1>1, <2>1 DEF CastInv
<1>2. CASE Active(c) /\ S \cap connections = {}
  <2>1. d = c /\ connections \ S = connections
    BY <1>2 DEF Shrunk
  <2> QED  BY <2>1
<1>3. CASE Active(c) /\ S \cap connections # {}
  <2>1. d = [c EXCEPT !.ahead = @ \ S, !.whole = @ \ S,
                      !.stirred = IF @ = "no" THEN "left" ELSE @]
    BY <1>3 DEF Shrunk
  <2>2. c.ahead \ S \subseteq Socket /\ c.whole \ S \subseteq Socket
    BY <1>a DEF Cast
  <2> DEFINE met == c.ahead \ S
             stayed == c.whole \ S
             stirs == IF c.stirred = "no" THEN "left" ELSE c.stirred
  <2>3. stirs \in {"no", "left", "joined"}
    BY <1>a
  <2>4. d = [c EXCEPT !.ahead = met, !.whole = stayed, !.stirred = stirs]
    BY <2>1
  <2>5. met \subseteq Socket /\ stayed \subseteq Socket
    BY <2>2
  <2> HIDE DEF d, met, stayed, stirs
  <2>6. /\ d \in Cast /\ d.at = c.at /\ d.tried = c.tried /\ d.to = c.to
        /\ d.ahead = met /\ d.whole = stayed /\ d.stirred = stirs
    BY <1>a, <2>3, <2>4, <2>5 DEF Cast
  <2>7. /\ d \in Cast /\ d.at = c.at /\ d.tried = c.tried /\ d.to = c.to
        /\ d.ahead = c.ahead \ S /\ d.whole = c.whole \ S
        /\ d.stirred = IF c.stirred = "no" THEN "left" ELSE c.stirred
    BY <2>6 DEF met, stayed, stirs
  <2>8. d.stirred # "no" /\ (d.stirred = "joined" <=> c.stirred = "joined")
    BY <1>a, <2>7
  <2>9. MeetsAll(c) /\ c.at = "sending" /\ c.to \in Socket
    BY <1>3 DEF CastInv, Active
  <2>10. MeetsAll(d)
    BY <2>7, <2>8, <2>9 DEF MeetsAll
  <2> HIDE DEF d
  <2> QED  BY <2>7, <2>8, <2>9, <2>10 DEF CastInv, Undisturbed, d
<1> QED  BY <1>1, <1>2, <1>3

LEMMA GrownKeeps ==
  ASSUME connections \subseteq Socket, NEW s \in Socket, NEW c,
         CastInv(c, connections), NEW d \in Grown(c, s)
  PROVE  CastInv(d, connections \cup {s})
<1>1. CASE ~Active(c)
  <2>1. d = c
    BY <1>1 DEF Grown
  <2> QED  BY <1>1, <2>1 DEF CastInv
<1>2. CASE Active(c)
  <2>1. PICK A \in SUBSET (connections \cup {s}) :
          d = [c EXCEPT !.ahead = A, !.stirred = "joined"]
    BY <1>2 DEF Grown
  <2>2. c \in Cast /\ c.at = "sending"
    BY <1>2 DEF CastInv, Active
  <2>3. A \subseteq Socket
    OBVIOUS
  <2>4. /\ d \in Cast /\ d.stirred = "joined" /\ d.at = "sending"
        /\ d.to \in Socket
    BY <1>2, <2>1, <2>2, <2>3 DEF CastInv, Cast
  <2> QED  BY <2>4 DEF CastInv, Undisturbed, MeetsAll
<1> QED  BY <1>1, <1>2

\* A broadcast gets control: its own turn, and what its dead mean to the others.
LEMMA GoKeeps ==
  ASSUME StreamInv, NEW b \in Caller, NEW c \in Cast,
         Undisturbed(c, connections), MeetsAll(c), Go(b, c)
  PROVE  StreamInv'
<1>1. /\ connections \subseteq Socket /\ IsFiniteSet(connections)
      /\ cast \in [Caller -> Cast] /\ \A x \in Caller : CastInv(cast[x], connections)
  BY DEF StreamInv
<1>2. PICK d \in Turn(c, connections) :
        IF d.at = "returned"
          THEN /\ connections' = connections \ d.dead
               /\ cast' = [x \in Caller |-> IF x = b THEN [d EXCEPT !.dead = {}]
                                            ELSE Shrunk(cast[x], d.dead)]
        ELSE cast' = [cast EXCEPT ![b] = d] /\ UNCHANGED connections
  BY DEF Go
<1>3. CastInv(d, connections) /\ (d.at = "returned" => CastInv([d EXCEPT !.dead = {}], connections))
  BY <1>1, TurnKeeps
<1>4. CASE d.at = "returned"
  <2> DEFINE e == [d EXCEPT !.dead = {}]
  <2>1. /\ connections' = connections \ d.dead
        /\ cast' = [x \in Caller |-> IF x = b THEN e ELSE Shrunk(cast[x], d.dead)]
    BY <1>2, <1>4
  <2>2. e.at = "returned" /\ CastInv(e, connections)
    BY <1>3, <1>4 DEF CastInv, Cast
  <2> HIDE DEF e
  <2>3. CastInv(e, connections')
    BY <2>2 DEF CastInv, Active
  <2>4. ASSUME NEW x \in Caller PROVE CastInv(cast'[x], connections')
    <3>1. CASE x = b
      BY <2>1, <2>3, <3>1
    <3>2. CASE x # b
      BY <1>1, <2>1, <3>2, ShrunkKeeps
    <3> QED  BY <3>1, <3>2
  <2>5. cast' \in [Caller -> Cast]
    <3>1. \A x \in Caller : cast'[x] \in Cast
      BY <2>4 DEF CastInv
    <3> QED  BY <2>1, <3>1
  <2>6. connections' \subseteq Socket /\ IsFiniteSet(connections')
    BY <1>1, <2>1, FS_Subset
  <2> QED  BY <2>4, <2>5, <2>6 DEF StreamInv, CastInv, Undisturbed
<1>5. CASE d.at # "returned"
  <2>1. cast' = [cast EXCEPT ![b] = d] /\ connections' = connections /\ d \in Cast
    BY <1>2, <1>3, <1>5 DEF CastInv
  <2>2. \A x \in Caller : CastInv(cast'[x], connections')
    BY <1>1, <1>3, <2>1
  <2> QED  BY <1>1, <2>1, <2>2 DEF StreamInv, CastInv, Undisturbed
<1> QED  BY <1>4, <1>5

LEMMA BroadcastKeeps ==
  ASSUME StreamInv, NEW b \in Caller,
         Broadcast(b) \/ Sent(b) \/ SentInVain(b)
  PROVE  StreamInv'
<1>1. /\ connections \subseteq Socket /\ IsFiniteSet(connections)
      /\ cast[b] \in Cast /\ CastInv(cast[b], connections)
  BY DEF StreamInv
<1>2. CASE Broadcast(b)
  <2> DEFINE c == [Idling EXCEPT !.size = Cardinality(connections),
                                      !.ahead = connections, !.whole = connections]
  <2>1. Cardinality(connections) \in Nat
    BY <1>1, FS_CardinalityType
  <2>2. /\ c \in Cast /\ c.size = Cardinality(connections)
        /\ c.ahead = connections /\ c.whole = connections
    BY <1>1, <2>1 DEF Idling, Cast
  <2>3. Go(b, c)
    BY <1>2 DEF Broadcast
  <2> HIDE DEF c
  <2> QED  BY <2>2, <2>3, GoKeeps DEF Undisturbed, MeetsAll
<1>3. CASE Sent(b)
  <2> DEFINE old == cast[b]
             c == IF line[old.to] = "shut" THEN [old EXCEPT !.dead = @ \cup {old.to}] ELSE old
  <2>1. Active(old) /\ line[old.to] \in {"open", "shut"} /\ Go(b, c)
    BY <1>3 DEF Sent
  <2>2. Undisturbed(old, connections) /\ MeetsAll(old) /\ old.to \in Socket
    BY <1>1, <2>1 DEF CastInv
  <2>3. /\ c \in Cast /\ c.stirred = old.stirred /\ c.size = old.size
        /\ c.ahead = old.ahead /\ c.whole = old.whole /\ c.tried = old.tried
    BY <1>1, <2>2 DEF Cast
  <2> HIDE DEF c
  <2> QED  BY <2>1, <2>2, <2>3, GoKeeps DEF Undisturbed, MeetsAll
<1>4. CASE SentInVain(b)
  <2>1. Active(cast[b]) /\ Go(b, cast[b])
    BY <1>4 DEF SentInVain
  <2> QED  BY <1>1, <2>1, GoKeeps DEF CastInv
<1> QED  BY <1>2, <1>3, <1>4

\* A socket is taken in, which any broadcast under way may notice or not.
LEMMA JoinKeeps ==
  ASSUME StreamInv, NEW s \in Socket, Join(s)
  PROVE  StreamInv'
<1>1. /\ connections \subseteq Socket /\ IsFiniteSet(connections)
      /\ \A b \in Caller : CastInv(cast[b], connections)
  BY DEF StreamInv
<1>2. /\ connections' = connections \cup {s}
      /\ cast' \in [Caller -> UNION {Grown(cast[b], s) : b \in Caller}]
      /\ \A b \in Caller : cast'[b] \in Grown(cast[b], s)
  BY DEF Join
<1>3. ASSUME NEW b \in Caller PROVE CastInv(cast'[b], connections')
  BY <1>1, <1>2, GrownKeeps
<1>4. cast' \in [Caller -> Cast]
  <2>1. \A b \in Caller : cast'[b] \in Cast
    BY <1>3 DEF CastInv
  <2> QED  BY <1>2, <2>1
<1>5. connections' \subseteq Socket /\ IsFiniteSet(connections')
  BY <1>1, <1>2, FS_AddElement
<1> QED  BY <1>3, <1>4, <1>5 DEF StreamInv, CastInv, Undisturbed

LEMMA DropKeeps ==
  ASSUME StreamInv, NEW S, Drop(S)
  PROVE  StreamInv'
<1>1. /\ connections \subseteq Socket /\ IsFiniteSet(connections)
      /\ \A b \in Caller : CastInv(cast[b], connections)
  BY DEF StreamInv
<1>2. /\ connections' = connections \ S
      /\ cast' = [b \in Caller |-> Shrunk(cast[b], S)]
  BY DEF Drop
<1>3. ASSUME NEW b \in Caller PROVE CastInv(cast'[b], connections')
  BY <1>1, <1>2, ShrunkKeeps
<1>4. cast' \in [Caller -> Cast]
  <2>1. \A b \in Caller : cast'[b] \in Cast
    BY <1>3 DEF CastInv
  <2> QED  BY <1>2, <2>1
<1>5. connections' \subseteq Socket /\ IsFiniteSet(connections')
  BY <1>1, <1>2, FS_Subset
<1> QED  BY <1>3, <1>4, <1>5 DEF StreamInv, CastInv, Undisturbed

LEMMA SameSetKeeps ==
  ASSUME StreamInv, UNCHANGED <<connections, cast>>
  PROVE  StreamInv'
BY DEF StreamInv, CastInv, Undisturbed

\* The process ends and with it every broadcast under way.
LEMMA RestartKeeps ==
  ASSUME StreamInv, Restart
  PROVE  StreamInv'
<1>1. /\ connections' = {}
      /\ cast' = [b \in Caller |-> IF Active(cast[b]) THEN [Idling EXCEPT !.at = "cut"]
                                   ELSE cast[b]]
  BY DEF Restart
<1>2. ASSUME NEW b \in Caller PROVE CastInv(cast'[b], connections')
  <2>1. CastInv(cast[b], connections)
    BY DEF StreamInv
  <2>2. CASE Active(cast[b])
    <3> DEFINE c == [Idling EXCEPT !.at = "cut"]
    <3>1. c \in Cast /\ c.at = "cut" /\ cast'[b] = c
      BY <1>1, <2>2 DEF Idling, Cast
    <3> HIDE DEF c
    <3> QED  BY <3>1 DEF CastInv, Active
  <2>3. CASE ~Active(cast[b])
    BY <1>1, <2>1, <2>3 DEF CastInv
  <2> QED  BY <2>2, <2>3
<1>3. cast' \in [Caller -> Cast]
  <2>1. \A b \in Caller : cast'[b] \in Cast
    BY <1>2 DEF CastInv
  <2> QED  BY <1>1, <2>1
<1>4. connections' \subseteq Socket /\ IsFiniteSet(connections')
  BY <1>1, FS_EmptySet
<1> QED  BY <1>2, <1>3, <1>4 DEF StreamInv, CastInv, Undisturbed

LEMMA StreamStep ==
  ASSUME StreamInv, [StreamNext]_streamVars
  PROVE  StreamInv'
<1>1. ASSUME NEW b \in Caller, Broadcast(b) \/ Sent(b) \/ SentInVain(b)
      PROVE  StreamInv'
  BY <1>1, BroadcastKeeps
<1>2. ASSUME NEW s \in Socket, Accept(s)
      PROVE  StreamInv'
  <2>1. Join(s) \/ UNCHANGED <<connections, cast>>
    BY <1>2 DEF Accept
  <2> QED  BY <2>1, JoinKeeps, SameSetKeeps
<1>3. ASSUME NEW s \in Socket, Disconnect(s)
      PROVE  StreamInv'
  BY <1>3, DropKeeps DEF Disconnect
<1>4. ASSUME NEW s \in Socket, Ping(s) \/ GiveUp(s)
      PROVE  StreamInv'
  BY <1>4, SameSetKeeps DEF Ping, GiveUp, castVars
<1>5. ASSUME NEW p \in Page, Dial(p) \/ Lose(p)
      PROVE  StreamInv'
  BY <1>5, SameSetKeeps DEF Dial, Lose, castVars
<1>6. CASE Restart
  BY <1>6, RestartKeeps
<1>7. CASE UNCHANGED streamVars
  BY <1>7, SameSetKeeps DEF streamVars, castVars
<1> QED  BY <1>1, <1>2, <1>3, <1>4, <1>5, <1>6, <1>7 DEF StreamNext

LEMMA StreamStarts == StreamInit => StreamInv
<1> SUFFICES ASSUME StreamInit PROVE StreamInv
  OBVIOUS
<1>1. connections = {} /\ cast = [b \in Caller |-> Idling]
  BY DEF StreamInit
<1>2. Idling.at = "idle"
  BY DEF Idling
<1>3. CastInv(Idling, connections)
  BY <1>2, IdlingIsCast DEF CastInv, Active
<1>4. IsFiniteSet(connections)
  BY <1>1, FS_EmptySet
<1> QED  BY <1>1, <1>3, <1>4, IdlingIsCast DEF StreamInv

THEOREM StreamSafe == StreamSpec => []StreamInv
BY StreamStarts, StreamStep, PTL DEF StreamSpec

\* RaisesForCause: a broadcast raises only because another coroutine has taken a
\* socket into the set or out of it during one of its sends; dead clients alone
\* never break it (main.py:52-60).
THEOREM RaisesOnlyForCause == StreamSpec => []RaisesForCause
<1>1. StreamInv => RaisesForCause
  BY DEF StreamInv, CastInv, RaisesForCause
<1> QED  BY <1>1, StreamSafe, PTL

\* ReturnedReachesAll: a broadcast that returns has tried every socket that was in
\* the set from its start to its end, unless a socket joined meanwhile (main.py:54).
THEOREM ReturnedReached == StreamSpec => []ReturnedReachesAll
<1>1. StreamInv => ReturnedReachesAll
  BY DEF StreamInv, CastInv, ReturnedReachesAll
<1> QED  BY <1>1, StreamSafe, PTL

-----------------------------------------------------------------------------
(* The types of the stream. *)

StreamTypeInv == StreamInv /\ StreamTypeOK /\ dials \in [Page -> Nat]

\* Who dials, loses a line or ends changes the lines and the handlers in place.
LEMMA StreamTypeStep ==
  ASSUME StreamTypeInv, [StreamNext]_streamVars
  PROVE  StreamTypeInv'
<1>1. StreamInv /\ StreamInv'
  BY StreamStep DEF StreamTypeInv
<1>2. connections' \subseteq Socket /\ cast' \in [Caller -> Cast]
  BY <1>1 DEF StreamInv
<1>3. /\ \A p \in Page : dials[p] \in 0..MaxDials[p] /\ MaxDials[p] \in Nat
      /\ line \in [Socket -> LineState] /\ unanswered \subseteq Socket
      /\ handler \in [Socket -> Handler]
      /\ restarts \in 0..MaxRestarts /\ MaxRestarts \in Nat
      /\ dials \in [Page -> Nat]
  BY StreamAssumption DEF StreamTypeInv, StreamTypeOK
<1> DEFINE Rest == /\ dials' \in [Page -> Nat]
                   /\ \A p \in Page : dials'[p] \in 0..MaxDials[p]
                   /\ line' \in [Socket -> LineState]
                   /\ unanswered' \subseteq Socket
                   /\ handler' \in [Socket -> Handler]
                   /\ restarts' \in 0..MaxRestarts
<1>4. ASSUME NEW b \in Caller, Broadcast(b) \/ Sent(b)
      PROVE  Rest
  BY <1>3, <1>4 DEF Broadcast, Sent
<1>5. ASSUME NEW b \in Caller, SentInVain(b)
      PROVE  Rest
  <2>1. cast[b].to \in Socket
    BY <1>1, <1>5 DEF StreamInv, CastInv, SentInVain
  <2> QED  BY <1>3, <1>5, <2>1 DEF SentInVain
<1>6. ASSUME NEW s \in Socket, Accept(s) \/ Disconnect(s)
      PROVE  Rest
  BY <1>3, <1>6 DEF Accept, Disconnect, Handler
<1>7. ASSUME NEW s \in Socket, Ping(s) \/ GiveUp(s)
      PROVE  Rest
  BY <1>3, <1>7 DEF Ping, GiveUp, castVars, LineState
<1>8. ASSUME NEW p \in Page, Dial(p)
      PROVE  Rest
  <2>1. /\ dials[p] < MaxDials[p] /\ dials' = [dials EXCEPT ![p] = @ + 1]
        /\ line' = [line EXCEPT ![<<p, dials[p] + 1>>] = "open"]
        /\ handler' = [handler EXCEPT ![<<p, dials[p] + 1>>] = "accept"]
        /\ UNCHANGED <<unanswered, restarts>>
    BY <1>8 DEF Dial
  <2>2. \A q \in Page : dials'[q] \in 0..MaxDials[q]
    <3> TAKE q \in Page
    <3>1. q # p => dials'[q] = dials[q]
      BY <1>3, <2>1
    <3>2. q = p => dials'[q] = dials[p] + 1
      BY <1>3, <2>1
    <3> QED  BY <1>3, <2>1, <3>1, <3>2
  <2>3. line' \in [Socket -> LineState] /\ handler' \in [Socket -> Handler]
    BY <1>3, <2>1 DEF LineState, Handler
  <2>4. dials' \in [Page -> Nat]
    <3>1. dials[p] + 1 \in Nat
      BY <1>3
    <3> QED  BY <1>3, <2>1, <3>1
  <2> QED  BY <1>3, <2>1, <2>2, <2>3, <2>4
<1>9. ASSUME NEW p \in Page, Lose(p)
      PROVE  Rest
  BY <1>3, <1>9 DEF Lose, castVars, LineState
<1>10. ASSUME Restart
       PROVE  Rest
  BY <1>3, <1>10 DEF Restart, LineState, Handler
<1>11. ASSUME UNCHANGED streamVars
       PROVE  Rest
  BY <1>3, <1>11 DEF streamVars, castVars
<1>12. Rest
  BY <1>4, <1>5, <1>6, <1>7, <1>8, <1>9, <1>10, <1>11 DEF StreamNext
<1> QED  BY <1>1, <1>2, <1>12 DEF StreamTypeInv, StreamTypeOK

LEMMA StreamTypeStart ==
  ASSUME StreamInit
  PROVE  StreamTypeInv
<1>1. StreamTypeOK
  <2>1. \A p \in Page : dials[p] \in 0..MaxDials[p]
    BY StreamAssumption DEF StreamInit
  <2>2. /\ line \in [Socket -> LineState] /\ handler \in [Socket -> Handler]
        /\ restarts \in 0..MaxRestarts
    BY StreamAssumption DEF StreamInit, LineState, Handler
  <2>3. unanswered = {} /\ connections = {} /\ cast = [b \in Caller |-> Idling]
    BY DEF StreamInit
  <2> QED  BY <2>1, <2>2, <2>3, IdlingIsCast DEF StreamTypeOK
<1>2. dials \in [Page -> Nat]
  BY DEF StreamInit
<1> QED  BY <1>1, <1>2, StreamStarts DEF StreamTypeInv

\* The variables of the stream keep their types, whatever joins, leaves, dies and
\* restarts meanwhile (ConnectionManager in main.py).
THEOREM StreamTypes == StreamSpec => []StreamTypeOK
<1>1. StreamInit => StreamTypeInv
  BY StreamTypeStart
<1>2. StreamTypeInv /\ [StreamNext]_streamVars => StreamTypeInv'
  BY StreamTypeStep
<1>3. StreamTypeInv => StreamTypeOK
  BY DEF StreamTypeInv
<1> QED  BY <1>1, <1>2, <1>3, PTL DEF StreamSpec

=============================================================================
