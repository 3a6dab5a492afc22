----------------------- MODULE TakeoverScenarioProofs -----------------------
(***************************************************************************)
(* Theorems about LoginSignals, for every set of requests, addresses and   *)
(* accounts, and about the takeover scenario that composes it with         *)
(* SecurityFeed. A login is followed through the table: what it saw when   *)
(* it was looked up, and where it and the login it saw stand in the order  *)
(* of the recorded logins.                                                 *)
(***************************************************************************)
EXTENDS TakeoverScenario, FiniteSetTheorems, SequenceTheorems, TLAPS

-----------------------------------------------------------------------------
(* Who may be recorded.                                                     *)

Recording(c) == [op |-> "record", by |-> c] \in late
InTable(c) == c \in Recorded(EmailOf(c))

\* The login's password was accepted.
Passed(c) ==
  \/ pc[c] \in {"resetIp", "resetAccount", "tellTravel", "record", "issue", "pair"}
  \/ InTable(c) \/ Recording(c)

\* An accepted password stays the account's.
Admitted(c) == Passed(c) => users[EmailOf(c)].password = req[c].password

AdmissionInv == TypeOK /\ \A c \in Attempt : Admitted(c)

\* A login is recorded at most once, and the row tells the last one.
OrderTells(e) ==
  /\ users[e].last = IF order[e] = <<>> THEN Nobody ELSE order[e][Len(order[e])]
  /\ \A i \in 1..Len(order[e]) : EmailOf(order[e][i]) = e
  /\ \A i, j \in 1..Len(order[e]) : order[e][i] = order[e][j] => i = j

Done == {"issue", "pair", "error", "lost"}
RecordedOnce(c) ==
  /\ InTable(c) \/ Recording(c) => pc[c] \in Done
  /\ Recording(c) => ~InTable(c)

\* A login that was let in saw the last one recorded, or none: whoever had been
\* recorded when it arrived is that one or before it, and it comes after.
Saw(c) ==
  LET s == order[EmailOf(c)] IN
  Passed(c) =>
    \/ seen[c] = Nobody /\ before[c] = {}
    \/ \E p \in 1..Len(s) :
         /\ s[p] = seen[c]
         /\ \A b \in before[c] : \E k \in 1..p : s[k] = b
         /\ \A j \in 1..Len(s) : s[j] = c => p < j

Arrived(c) == before[c] \subseteq Recorded(EmailOf(c))

\* From its record on, a login from too far away has been reported.
TravelReported(c) ==
  (pc[c] \in {"record", "issue", "pair"} \/ InTable(c) \/ Recording(c))
    /\ ImpossibleTravel(c, gap[c]) => Told("impossible_travel", c)

TravelInv ==
  /\ AdmissionInv
  /\ \A e \in Email : OrderTells(e)
  /\ \A c \in Attempt : RecordedOnce(c) /\ Saw(c) /\ Arrived(c) /\ TravelReported(c)

-----------------------------------------------------------------------------
(* What was counted.                                                        *)

Busy == {c \in Attempt : pc[c] # "idle"}
IpFailed(k) == {c \in Attempt : Failed(c) /\ req[c].ip = k}
AccountFailed(k) == {c \in Attempt : Failed(c) /\ EmailOf(c) = k}
AccountCounted(k) ==
  {c \in Attempt : pc[c] \in {"tellAccount", "refused", "lost"} /\ EmailOf(c) = k}

\* A count never exceeds the requests that failed, however they interleave.
Counts ==
  /\ IsFiniteSet(Busy)
  /\ \A k \in Ip : byIp[k] <= Cardinality(IpFailed(k))
  /\ \A k \in Email : byAccount[k] <= Cardinality(AccountCounted(k))

TravelCause(c) ==
  \E b \in Attempt : /\ b # c /\ b \in Recorded(EmailOf(c))
                     /\ req[b].place # req[c].place
                     /\ users[EmailOf(c)].password = req[c].password

Causes ==
  \A c \in Attempt :
    /\ pc[c] = "tellTravel" => TravelCause(c)
    /\ pc[c] = "tellIp" => Cardinality(IpFailed(req[c].ip)) >= IpThreshold
    /\ pc[c] = "tellAccount" => Cardinality(AccountFailed(EmailOf(c))) >= AccountThreshold

CauseInv == TravelInv /\ Counts /\ Causes /\ WarningsHaveCause
-----------------------------------------------------------------------------
(* Types.                                                                   *)

\* A login that is recorded: the row and the order of the account.
LEMMA RecordingKeeps ==
  ASSUME TypeOK, NEW c \in Attempt, RecordLogin(c)
  PROVE  /\ users' \in [Email -> User] /\ order' \in [Email -> Seq(Attempt)]
         /\ \A e \in Email : users'[e].password = users[e].password
         /\ \A e \in Email : e # EmailOf(c) => users'[e] = users[e] /\ order'[e] = order[e]
         /\ EmailOf(c) \in Email /\ users'[EmailOf(c)].last = c
         /\ order'[EmailOf(c)] = Append(order[EmailOf(c)], c)
<1>1. EmailOf(c) \in Email
  BY DEF TypeOK, EmailOf, Request
<1>2. users \in [Email -> User] /\ order \in [Email -> Seq(Attempt)]
  BY DEF TypeOK
<1>3. users' = [users EXCEPT ![EmailOf(c)].last = c]
  BY DEF RecordLogin
<1>4. /\ users' \in [Email -> User]
      /\ \A e \in Email : users'[e].password = users[e].password
      /\ \A e \in Email : e # EmailOf(c) => users'[e] = users[e]
      /\ users'[EmailOf(c)].last = c
  BY <1>1, <1>2, <1>3 DEF User
<1>5. QED
  BY <1>1, <1>2, <1>4 DEF RecordLogin

\* A registration leaves every registered row, and every last login, alone.
LEMMA CreatingKeeps ==
  ASSUME TypeOK, NEW s \in Signup, Create(s)
  PROVE  /\ users' \in [Email -> User] /\ order' = order
         /\ form[s].email \in Email /\ form[s].password \in Password
         /\ \A e \in Email : /\ Registered(e) => users'[e] = users[e]
                             /\ users'[e].last = users[e].last
         /\ ~Registered(form[s].email) => users'[form[s].email].password = form[s].password
<1>1. form[s].email \in Email /\ form[s].password \in Password
  BY DEF TypeOK, Form
<1>2. users \in [Email -> User] /\ order' = order
  BY DEF TypeOK, Create
<1>3. CASE Registered(form[s].email)
  BY <1>1, <1>2, <1>3 DEF Create
<1>4. CASE ~Registered(form[s].email)
  <2>1. users' = [users EXCEPT ![form[s].email] =
                    [password |-> form[s].password, last |-> Nobody]]
    BY <1>4 DEF Create
  <2>2. users[form[s].email].last = Nobody
    BY <1>1, <1>4 DEF TypeOK
  <2>3. QED
    BY <1>1, <1>2, <1>4, <2>1, <2>2 DEF User, Registered
<1>5. QED
  BY <1>3, <1>4

LEMMA AbandonedTypes ==
  ASSUME NEW C, NEW S, C \subseteq Attempt, S \subseteq Signup
  PROVE  Abandoned(C, S) \subseteq Statement
  BY DEF Abandoned, Statement

LEMMA PublishTypes ==
  ASSUME TypeOK, NEW w \in Warning, Publish(w)
  PROVE  told' \subseteq Warning /\ unheard' \subseteq Warning /\ faults' \in 0..MaxFaults
  BY LoginAssumption DEF TypeOK, Publish, Fault

\* Only an account that exists is logged in to.
LEMMA PassedIsRegistered ==
  ASSUME AdmissionInv, NEW c \in Attempt, Passed(c)
  PROVE  Registered(EmailOf(c))
  BY LoginAssumption DEF AdmissionInv, Admitted, Registered, TypeOK, Request

LEMMA InitAdmission == Init => AdmissionInv
  BY LoginAssumption
  DEF Init, AdmissionInv, TypeOK, User, Pc, SignupPc, Admitted, Passed, InTable, Recorded,
      Recording, EmailOf, Request

LEMMA StepTypes ==
  ASSUME AdmissionInv, [Next]_vars
  PROVE  TypeOK'
<1> USE DEF Goto
<1>a. TypeOK
  BY DEF AdmissionInv
<1>b. /\ pc \in [Attempt -> Pc] /\ spc \in [Signup -> SignupPc]
      /\ faults \in 0..MaxFaults /\ MaxFaults \in Nat
  BY <1>a, LoginAssumption DEF TypeOK
<1>c. /\ req \in [Attempt -> Request] /\ \A c \in Attempt : EmailOf(c) \in Email /\ req[c].ip \in Ip
  BY <1>a DEF TypeOK, Request, EmailOf
<1>d. Fault => faults' \in 0..MaxFaults
  BY <1>b DEF Fault
<1>e. /\ users \in [Email -> User] /\ order \in [Email -> Seq(Attempt)]
      /\ \A e \in Email : users[e].last # Nobody => Registered(e)
  BY <1>a DEF TypeOK
<1>1. ASSUME NEW s \in Signup, SignUp(s) \/ CheckEmail(s) \/ CreateFails(s)
      PROVE  TypeOK'
  <2>1. Abandoned({}, {s}) \subseteq Statement
    BY AbandonedTypes
  <2>2. /\ spc' \in [Signup -> SignupPc] /\ faults' \in 0..MaxFaults
        /\ late' \subseteq Statement
    BY <1>a, <1>b, <1>d, <1>1, <2>1 DEF SignUp, CheckEmail, CreateFails, SignupPc, TypeOK
  <2>3. UNCHANGED <<form, loginVars, tableVars, failureVars, warningVars>>
    BY <1>1 DEF SignUp, CheckEmail, CreateFails
  <2>4. QED
    BY <1>a, <2>2, <2>3
    DEF TypeOK, loginVars, tableVars, failureVars, warningVars, Registered
<1>2. ASSUME NEW s \in Signup, CreateUser(s)
      PROVE  TypeOK'
  <2>1. /\ users' \in [Email -> User] /\ order' = order
        /\ \A e \in Email : users'[e].last # Nobody => Registered(e)'
    BY <1>a, <1>e, <1>2, CreatingKeeps DEF CreateUser, Registered
  <2>2. spc' \in [Signup -> SignupPc]
    BY <1>b, <1>2 DEF CreateUser, SignupPc
  <2>3. UNCHANGED <<form, loginVars, failureVars, warningVars, late, faults>>
    BY <1>2 DEF CreateUser
  <2>4. QED
    BY <1>a, <2>1, <2>2, <2>3 DEF TypeOK, loginVars, failureVars, warningVars
<1>3. ASSUME NEW c \in Attempt, Arrive(c) \/ Lookup(c) \/ ResetIp(c) \/ ResetAccount(c) \/ Issue(c)
      PROVE  TypeOK'
  <2>1. Recorded(EmailOf(c)) \subseteq Attempt /\ users[EmailOf(c)].last \in Attempt \cup {Nobody}
    BY <1>c, <1>e DEF Recorded, User
  <2>2. pc' \in [Attempt -> Pc]
    BY <1>b, <1>3 DEF Arrive, Lookup, ResetIp, ResetAccount, Issue, Pc
  <2>3. /\ before' \in [Attempt -> SUBSET Attempt]
        /\ seen' \in [Attempt -> Attempt \cup {Nobody}]
    <3>1. \/ before' = [before EXCEPT ![c] = Recorded(EmailOf(c))]
          \/ before' = before
      BY <1>3 DEF Arrive, Lookup, ResetIp, ResetAccount, Issue
    <3>2. seen' = seen \/ seen' = [seen EXCEPT ![c] = users[EmailOf(c)].last]
      BY <1>3 DEF Arrive, Lookup, ResetIp, ResetAccount, Issue
    <3>3. before \in [Attempt -> SUBSET Attempt] /\ seen \in [Attempt -> Attempt \cup {Nobody}]
      BY <1>a DEF TypeOK
    <3>4. QED
      BY <2>1, <3>1, <3>2, <3>3
  <2>4. byIp' \in [Ip -> Nat] /\ byAccount' \in [Email -> Nat] /\ faults' \in 0..MaxFaults
    <3>1. byIp \in [Ip -> Nat] /\ byAccount \in [Email -> Nat] /\ 0 \in Nat
      BY <1>a DEF TypeOK
    <3>2. byIp' = byIp \/ byIp' = [byIp EXCEPT ![req[c].ip] = 0]
      BY <1>3 DEF Arrive, Lookup, ResetIp, ResetAccount, Issue, failureVars
    <3>3. byAccount' = byAccount \/ byAccount' = [byAccount EXCEPT ![EmailOf(c)] = 0]
      BY <1>3 DEF Arrive, Lookup, ResetIp, ResetAccount, Issue, failureVars
    <3>4. faults' \in 0..MaxFaults
      BY <1>b, <1>d, <1>3 DEF Arrive, Lookup, ResetIp, ResetAccount, Issue
    <3>5. QED
      BY <3>1, <3>2, <3>3, <3>4
  <2>5. UNCHANGED <<req, signupVars, tableVars, warningVars, late>>
    BY <1>3 DEF Arrive, Lookup, ResetIp, ResetAccount, Issue
  <2>7. gap' \in [Attempt -> Gap \cup {"none"}]
    <3>1. gap' = gap \/ \E elapsed \in Gap : gap' = [gap EXCEPT ![c] = elapsed]
      BY <1>3 DEF Arrive, Lookup, ResetIp, ResetAccount, Issue
    <3>2. gap \in [Attempt -> Gap \cup {"none"}]
      BY <1>a DEF TypeOK
    <3>3. QED
      BY <3>1, <3>2
  <2>6. QED
    BY <1>a, <2>2, <2>3, <2>4, <2>5, <2>7
    DEF TypeOK, signupVars, tableVars, warningVars, Registered
<1>4. ASSUME NEW c \in Attempt, CountIp(c) \/ CountAccount(c)
      PROVE  TypeOK'
  <2>1. pc' \in [Attempt -> Pc]
    BY <1>b, <1>4 DEF CountIp, CountAccount, Pc
  <2>2. byIp' \in [Ip -> Nat] /\ byAccount' \in [Email -> Nat]
    <3>1. byIp \in [Ip -> Nat] /\ byAccount \in [Email -> Nat]
      BY <1>a DEF TypeOK
    <3>2. byIp' = byIp \/ byIp' = [byIp EXCEPT ![req[c].ip] = @ + 1]
      BY <1>4 DEF CountIp, CountAccount
    <3>3. byAccount' = byAccount \/ byAccount' = [byAccount EXCEPT ![EmailOf(c)] = @ + 1]
      BY <1>4 DEF CountIp, CountAccount
    <3>4. QED
      BY <1>c, <3>1, <3>2, <3>3
  <2>3. UNCHANGED <<req, seen, gap, before, signupVars, tableVars, warningVars, late, faults>>
    BY <1>4 DEF CountIp, CountAccount
  <2>4. QED
    BY <1>a, <2>1, <2>2, <2>3 DEF TypeOK, signupVars, tableVars, warningVars, Registered
<1>5. ASSUME NEW c \in Attempt, TellIp(c) \/ TellAccount(c) \/ TellTravel(c)
      PROVE  TypeOK'
  <2>1. told' \subseteq Warning /\ unheard' \subseteq Warning /\ faults' \in 0..MaxFaults
    BY <1>a, <1>5, PublishTypes DEF TellIp, TellAccount, TellTravel, Warning
  <2>2. pc' \in [Attempt -> Pc]
    BY <1>b, <1>5 DEF TellIp, TellAccount, TellTravel, Pc
  <2>3. UNCHANGED <<req, seen, gap, before, signupVars, tableVars, failureVars, late>>
    BY <1>5 DEF TellIp, TellAccount, TellTravel
  <2>4. QED
    BY <1>a, <2>1, <2>2, <2>3 DEF TypeOK, signupVars, tableVars, failureVars, Registered
<1>f. ASSUME NEW c \in Attempt, RecordLogin(c), Passed(c)
      PROVE  /\ users' \in [Email -> User] /\ order' \in [Email -> Seq(Attempt)]
             /\ \A e \in Email : users'[e].last # Nobody => Registered(e)'
  <2>1. Registered(EmailOf(c))
    BY <1>f, PassedIsRegistered
  <2>2. /\ users' \in [Email -> User] /\ order' \in [Email -> Seq(Attempt)]
        /\ \A e \in Email : users'[e].password = users[e].password
        /\ \A e \in Email : e # EmailOf(c) => users'[e] = users[e]
    BY <1>a, <1>f, RecordingKeeps
  <2>3. QED
    BY <1>e, <2>1, <2>2 DEF Registered
<1>6. ASSUME NEW c \in Attempt, UpdateLastLogin(c)
      PROVE  TypeOK'
  <2>1. /\ users' \in [Email -> User] /\ order' \in [Email -> Seq(Attempt)]
        /\ \A e \in Email : users'[e].last # Nobody => Registered(e)'
    BY <1>6, <1>f DEF UpdateLastLogin, Passed
  <2>2. pc' \in [Attempt -> Pc]
    BY <1>b, <1>6 DEF UpdateLastLogin, Pc
  <2>3. UNCHANGED <<req, seen, gap, before, signupVars, failureVars, warningVars, late, faults>>
    BY <1>6 DEF UpdateLastLogin
  <2>4. QED
    BY <1>a, <2>1, <2>2, <2>3 DEF TypeOK, signupVars, failureVars, warningVars
<1>7. ASSUME NEW c \in Attempt, LoginFails(c)
      PROVE  TypeOK'
  <2>1. Abandoned({c}, {}) \subseteq Statement
    BY AbandonedTypes
  <2>2. /\ pc' \in [Attempt -> Pc] /\ late' \subseteq Statement
        /\ faults' \in 0..MaxFaults
    BY <1>a, <1>b, <1>d, <1>7, <2>1 DEF LoginFails, Pc, TypeOK
  <2>3. UNCHANGED <<req, seen, gap, before, signupVars, tableVars, failureVars, warningVars>>
    BY <1>7 DEF LoginFails
  <2>4. QED
    BY <1>a, <2>2, <2>3 DEF TypeOK, signupVars, tableVars, failureVars, warningVars, Registered
<1>8. CASE Crash
  <2>1. Abandoned(Attempt, Signup) \subseteq Statement
    BY AbandonedTypes
  <2>2. /\ pc' \in [Attempt -> Pc] /\ spc' \in [Signup -> SignupPc]
        /\ byIp' \in [Ip -> Nat] /\ byAccount' \in [Email -> Nat]
        /\ late' \subseteq Statement
    BY <1>a, <1>b, <1>8, <2>1 DEF Crash, Pc, SignupPc, TypeOK
  <2>3. UNCHANGED <<req, seen, gap, before, form, tableVars, warningVars, faults>>
    BY <1>8 DEF Crash
  <2>4. QED
    BY <1>a, <2>2, <2>3 DEF TypeOK, tableVars, warningVars, Registered
<1>9. CASE CarryOutLate
  <2>1. PICK t \in late : CarryOut(t) /\ late' = late \ {t}
    BY <1>9 DEF CarryOutLate
  <2>2. /\ users' \in [Email -> User] /\ order' \in [Email -> Seq(Attempt)]
        /\ \A e \in Email : users'[e].last # Nobody => Registered(e)'
    <3>1. CASE t.op = "record" /\ RecordLogin(t.by)
      <4>1. t.by \in Attempt /\ t = [op |-> "record", by |-> t.by]
        BY <1>a, <2>1, <3>1 DEF TypeOK, Statement
      <4>2. Passed(t.by)
        BY <2>1, <4>1 DEF Passed, Recording
      <4>3. QED
        BY <1>f, <3>1, <4>1, <4>2
    <3>2. CASE t.op = "create" /\ Create(t.by)
      <4>1. t.by \in Signup
        BY <1>a, <2>1, <3>2 DEF TypeOK, Statement
      <4>2. QED
        BY <1>a, <1>e, <3>2, <4>1, CreatingKeeps DEF Registered
    <3>3. QED
      BY <2>1, <3>1, <3>2 DEF CarryOut
  <2>3. UNCHANGED <<loginVars, signupVars, failureVars, warningVars, faults>>
    BY <1>9 DEF CarryOutLate
  <2>4. QED
    BY <1>a, <2>1, <2>2, <2>3 DEF TypeOK, loginVars, signupVars, failureVars, warningVars
<1>10. CASE FailureExpires
  <2>1. byIp' \in [Ip -> Nat] /\ byAccount' \in [Email -> Nat]
    <3>1. byIp \in [Ip -> Nat] /\ byAccount \in [Email -> Nat]
      BY <1>a DEF TypeOK
    <3>2. \/ /\ byAccount' = byAccount
             /\ \E k \in Ip : byIp[k] > 0 /\ byIp' = [byIp EXCEPT ![k] = @ - 1]
          \/ /\ byIp' = byIp
             /\ \E k \in Email : /\ byAccount[k] > 0
                                /\ byAccount' = [byAccount EXCEPT ![k] = @ - 1]
      BY <1>10 DEF FailureExpires
    <3>3. QED
      BY <3>1, <3>2
  <2>2. UNCHANGED <<loginVars, signupVars, tableVars, warningVars, late, faults>>
    BY <1>10 DEF FailureExpires
  <2>3. QED
    BY <1>a, <2>1, <2>2 DEF TypeOK, loginVars, signupVars, tableVars, warningVars, Registered
<1>11. CASE UNCHANGED vars
  BY <1>a, <1>11 DEF TypeOK, vars, loginVars, signupVars, tableVars, failureVars, warningVars,
                     Registered
<1>12. QED
  BY <1>1, <1>2, <1>3, <1>4, <1>5, <1>6, <1>7, <1>8, <1>9, <1>10, <1>11 DEF Next

-----------------------------------------------------------------------------
(* What a step may do to a login, and to the table.                         *)

Goes(c) ==
  LET From(p, q) == pc[c] = p /\ pc'[c] = q
      Clock == gap'[c] = gap[c]
      Same == before'[c] = before[c] /\ seen'[c] = seen[c] /\ Clock
  IN  \/ pc'[c] = pc[c] /\ Same
      \/ From("idle", "lookup") /\ before'[c] = Recorded(EmailOf(c)) /\ seen'[c] = seen[c] /\ Clock
      \/ /\ From("lookup", "resetIp")
         /\ users[EmailOf(c)].password = req[c].password
         /\ seen'[c] = users[EmailOf(c)].last /\ before'[c] = before[c] /\ Clock
      \/ From("lookup", "countIp") /\ Same
      \/ From("countIp", "tellIp") /\ Same
      \/ From("countIp", "countAccount") /\ Same
      \/ From("tellIp", "countAccount") /\ Told("brute_force_ip", c)' /\ Same
      \/ From("countAccount", "tellAccount") /\ Same
      \/ From("countAccount", "refused") /\ Same
      \/ From("tellAccount", "refused") /\ Told("brute_force_account", c)' /\ Same
      \/ From("resetIp", "resetAccount") /\ Same
      \/ /\ From("resetAccount", "tellTravel") \/ From("resetAccount", "record")
         /\ pc'[c] = "tellTravel" <=> ImpossibleTravel(c, gap'[c])
         /\ before'[c] = before[c] /\ seen'[c] = seen[c]
      \/ From("tellTravel", "record") /\ Told("impossible_travel", c)' /\ Same
      \/ From("record", "issue") /\ Same
      \/ From("issue", "pair") /\ Same
      \/ pc[c] \in {"record", "issue"} /\ pc'[c] = "error" /\ Same
      \/ Running(c) /\ pc'[c] = "lost" /\ Crash /\ Same

\* What was asked stays, and what was told only grows.
Grows ==
  /\ req' = req /\ form' = form
  /\ told \subseteq told' /\ unheard \subseteq unheard'

LEMMA PublishGrows ==
  ASSUME NEW type, NEW c, Publish([type |-> type, by |-> c])
  PROVE  told \subseteq told' /\ unheard \subseteq unheard' /\ Told(type, c)'
  BY DEF Publish, Told

LEMMA LoginGoes ==
  ASSUME TypeOK, [Next]_vars
  PROVE  Grows /\ \A c \in Attempt : Goes(c)
<1> USE DEF Goto
<1>a. /\ pc \in [Attempt -> Pc] /\ before \in [Attempt -> SUBSET Attempt]
      /\ seen \in [Attempt -> Attempt \cup {Nobody}]
      /\ gap \in [Attempt -> Gap \cup {"none"}]
  BY DEF TypeOK
<1>1. ASSUME NEW s \in Signup, SignUp(s) \/ CheckEmail(s) \/ CreateUser(s) \/ CreateFails(s)
      PROVE  Grows /\ \A c \in Attempt : Goes(c)
  <2>1. UNCHANGED <<form, loginVars, warningVars>>
    BY <1>1 DEF SignUp, CheckEmail, CreateUser, CreateFails
  <2>2. QED
    BY <2>1 DEF loginVars, warningVars, Grows, Goes
<1>2. ASSUME NEW d \in Attempt, Arrive(d)
      PROVE  Grows /\ \A c \in Attempt : Goes(c)
  <2>1. Grows
    BY <1>2 DEF Arrive, Grows, signupVars, warningVars
  <2>2. \A c \in Attempt : Goes(c)
    BY <1>2, <1>a DEF Arrive, Goes
  <2>3. QED
    BY <2>1, <2>2
<1>3. ASSUME NEW d \in Attempt, Lookup(d)
      PROVE  Grows /\ \A c \in Attempt : Goes(c)
  <2>1. Grows
    BY <1>3 DEF Lookup, Grows, signupVars, warningVars
  <2>2. pc[d] = "lookup" /\ before' = before /\ gap' = gap
    BY <1>3 DEF Lookup
  <2>3. CASE /\ users[EmailOf(d)].password = req[d].password
             /\ seen' = [seen EXCEPT ![d] = users[EmailOf(d)].last]
             /\ pc' = [pc EXCEPT ![d] = "resetIp"]
    BY <1>a, <2>1, <2>2, <2>3 DEF Goes
  <2>4. CASE pc' = [pc EXCEPT ![d] = "countIp"] /\ seen' = seen
    BY <1>a, <2>1, <2>2, <2>4 DEF Goes
  <2>5. QED
    BY <1>3, <2>3, <2>4 DEF Lookup
<1>4. ASSUME NEW d \in Attempt, CountIp(d) \/ CountAccount(d)
      PROVE  Grows /\ \A c \in Attempt : Goes(c)
  <2>1. Grows /\ before' = before /\ seen' = seen /\ gap' = gap
    BY <1>4 DEF CountIp, CountAccount, Grows, signupVars, warningVars
  <2>2. \/ pc[d] = "countIp" /\ pc' = [pc EXCEPT ![d] = "tellIp"]
        \/ pc[d] = "countIp" /\ pc' = [pc EXCEPT ![d] = "countAccount"]
        \/ pc[d] = "countAccount" /\ pc' = [pc EXCEPT ![d] = "tellAccount"]
        \/ pc[d] = "countAccount" /\ pc' = [pc EXCEPT ![d] = "refused"]
    BY <1>4 DEF CountIp, CountAccount
  <2>3. QED
    BY <1>a, <2>1, <2>2 DEF Goes
<1>5. ASSUME NEW d \in Attempt, TellIp(d) \/ TellAccount(d)
      PROVE  Grows /\ \A c \in Attempt : Goes(c)
  <2>1. told \subseteq told' /\ unheard \subseteq unheard'
    BY <1>5, PublishGrows DEF TellIp, TellAccount
  <2>2. Grows /\ before' = before /\ seen' = seen /\ gap' = gap
    BY <1>5, <2>1 DEF TellIp, TellAccount, Grows, signupVars
  <2>3. \/ /\ pc[d] = "tellIp" /\ pc' = [pc EXCEPT ![d] = "countAccount"]
           /\ Told("brute_force_ip", d)'
        \/ /\ pc[d] = "tellAccount" /\ pc' = [pc EXCEPT ![d] = "refused"]
           /\ Told("brute_force_account", d)'
    BY <1>5, PublishGrows DEF TellIp, TellAccount
  <2>4. QED
    BY <1>a, <2>2, <2>3 DEF Goes
<1>6. ASSUME NEW d \in Attempt, ResetIp(d)
      PROVE  Grows /\ \A c \in Attempt : Goes(c)
  <2>1. Grows
    BY <1>6 DEF ResetIp, Grows, signupVars, warningVars
  <2>2. \A c \in Attempt : Goes(c)
    BY <1>6, <1>a DEF ResetIp, Goes
  <2>3. QED
    BY <2>1, <2>2
<1>7. ASSUME NEW d \in Attempt, ResetAccount(d)
      PROVE  Grows /\ \A c \in Attempt : Goes(c)
  <2>1. Grows
    BY <1>7 DEF ResetAccount, Grows, signupVars, warningVars
  <2>2. PICK elapsed \in Gap :
          /\ gap' = [gap EXCEPT ![d] = elapsed]
          /\ pc' = [pc EXCEPT ![d] = IF ImpossibleTravel(d, elapsed)
                                    THEN "tellTravel" ELSE "record"]
    BY <1>7 DEF ResetAccount
  <2>3. pc[d] = "resetAccount" /\ before' = before /\ seen' = seen
    BY <1>7 DEF ResetAccount
  <2>4. gap'[d] = elapsed /\ \A c \in Attempt : c # d => gap'[c] = gap[c]
    BY <1>a, <2>2
  <2>5. \A c \in Attempt : Goes(c)
    BY <1>a, <2>2, <2>3, <2>4 DEF Goes
  <2>6. QED
    BY <2>1, <2>5
<1>8. ASSUME NEW d \in Attempt, TellTravel(d)
      PROVE  Grows /\ \A c \in Attempt : Goes(c)
  <2>1. /\ told \subseteq told' /\ unheard \subseteq unheard'
        /\ Told("impossible_travel", d)'
    BY <1>8, PublishGrows DEF TellTravel
  <2>2. /\ Grows /\ before' = before /\ seen' = seen /\ gap' = gap
        /\ pc[d] = "tellTravel" /\ pc' = [pc EXCEPT ![d] = "record"]
    BY <1>8, <2>1 DEF TellTravel, Grows, signupVars
  <2>3. \A c \in Attempt : Goes(c)
    BY <1>a, <2>1, <2>2 DEF Goes
  <2>4. QED
    BY <2>2, <2>3
<1>9. ASSUME NEW d \in Attempt, UpdateLastLogin(d) \/ Issue(d) \/ LoginFails(d)
      PROVE  Grows /\ \A c \in Attempt : Goes(c)
  <2>1. Grows /\ before' = before /\ seen' = seen /\ gap' = gap
    BY <1>9 DEF UpdateLastLogin, Issue, LoginFails, Grows, signupVars, warningVars
  <2>2. \/ pc[d] = "record" /\ pc' = [pc EXCEPT ![d] = "issue"]
        \/ pc[d] = "issue" /\ pc' = [pc EXCEPT ![d] = "pair"]
        \/ pc[d] \in {"record", "issue"} /\ pc' = [pc EXCEPT ![d] = "error"]
    BY <1>9 DEF UpdateLastLogin, Issue, LoginFails
  <2>3. QED
    BY <1>a, <2>1, <2>2 DEF Goes
<1>10. CASE Crash
  <2>1. Grows /\ before' = before /\ seen' = seen /\ gap' = gap
    BY <1>10 DEF Crash, Grows, warningVars
  <2>2. \A c \in Attempt : pc'[c] = IF Running(c) THEN "lost" ELSE pc[c]
    BY <1>10 DEF Crash
  <2>3. QED
    BY <1>10, <2>1, <2>2 DEF Goes
<1>11. CASE CarryOutLate \/ FailureExpires \/ UNCHANGED vars
  <2>1. UNCHANGED <<loginVars, form, warningVars>>
    BY <1>11 DEF CarryOutLate, FailureExpires, vars, signupVars
  <2>2. QED
    BY <2>1 DEF loginVars, warningVars, Grows, Goes
<1>12. QED
  BY <1>1, <1>2, <1>3, <1>4, <1>5, <1>6, <1>7, <1>8, <1>9, <1>10, <1>11 DEF Next

\* The table is left alone but for new rows, and no statement is given up but on
\* the way from the record.
Rests ==
  /\ order' = order
  /\ \A e \in Email : users'[e].last = users[e].last
  /\ \A c \in Attempt :
       Recording(c)' => Recording(c) \/ (pc[c] = "record" /\ pc'[c] \in {"error", "lost"})

\* Login c is recorded, by its own request or by the statement it left behind.
Adds(c) ==
  /\ users'[EmailOf(c)].last = c /\ order'[EmailOf(c)] = Append(order[EmailOf(c)], c)
  /\ \A e \in Email : e # EmailOf(c) => users'[e].last = users[e].last /\ order'[e] = order[e]
  /\ \/ pc[c] = "record" /\ pc'[c] = "issue" /\ late' = late
     \/ Recording(c) /\ ~Recording(c)' /\ pc'[c] = pc[c]
  /\ \A d \in Attempt : d # c => pc'[d] = pc[d] /\ (Recording(d)' => Recording(d))

LEMMA TableMoves ==
  ASSUME TypeOK, [Next]_vars
  PROVE  /\ \A e \in Email : Registered(e) => users'[e].password = users[e].password
         /\ Rests \/ \E c \in Attempt : Adds(c)
<1>a. pc \in [Attempt -> Pc] /\ late \subseteq Statement
  BY DEF TypeOK
<1>b. ASSUME UNCHANGED tableVars, late' = late
      PROVE  /\ \A e \in Email : Registered(e) => users'[e].password = users[e].password
             /\ Rests
  BY <1>b DEF tableVars, Rests, Recording
<1>1. ASSUME NEW s \in Signup, SignUp(s) \/ CheckEmail(s)
      PROVE  UNCHANGED tableVars /\ late' = late
  BY <1>1 DEF SignUp, CheckEmail
<1>2. ASSUME NEW c \in Attempt,
             \/ Arrive(c) \/ Lookup(c) \/ CountIp(c) \/ TellIp(c) \/ CountAccount(c)
             \/ TellAccount(c) \/ ResetIp(c) \/ ResetAccount(c) \/ TellTravel(c)
             \/ Issue(c)
      PROVE  UNCHANGED tableVars /\ late' = late
  BY <1>2 DEF Arrive, Lookup, CountIp, TellIp, CountAccount, TellAccount, ResetIp,
              ResetAccount, TellTravel, Issue
<1>3. CASE FailureExpires \/ UNCHANGED vars
  <2>1. UNCHANGED tableVars /\ late' = late
    BY <1>3 DEF FailureExpires, vars
  <2>2. QED
    BY <1>b, <2>1
<1>4. ASSUME NEW s \in Signup, CreateFails(s)
      PROVE  /\ \A e \in Email : Registered(e) => users'[e].password = users[e].password
             /\ Rests
  <2>1. UNCHANGED tableVars /\ late' \subseteq late \cup Abandoned({}, {s})
    BY <1>4 DEF CreateFails
  <2>2. \A c \in Attempt : Recording(c)' => Recording(c)
    BY <2>1 DEF Recording, Abandoned
  <2>3. QED
    BY <2>1, <2>2 DEF tableVars, Rests
<1>5. ASSUME NEW s \in Signup, CreateUser(s)
      PROVE  /\ \A e \in Email : Registered(e) => users'[e].password = users[e].password
             /\ Rests
  <2>1. late' = late /\ Create(s)
    BY <1>5 DEF CreateUser
  <2>2. QED
    BY <2>1, CreatingKeeps DEF Rests, Recording
<1>6. ASSUME NEW c \in Attempt, UpdateLastLogin(c)
      PROVE  /\ \A e \in Email : Registered(e) => users'[e].password = users[e].password
             /\ Adds(c)
  <2>1. /\ RecordLogin(c) /\ late' = late /\ pc[c] = "record" /\ pc'[c] = "issue"
        /\ \A d \in Attempt : d # c => pc'[d] = pc[d]
    BY <1>6, <1>a DEF UpdateLastLogin, Goto
  <2>2. QED
    BY <2>1, RecordingKeeps DEF Adds, Recording
<1>7. ASSUME NEW c \in Attempt, LoginFails(c)
      PROVE  /\ \A e \in Email : Registered(e) => users'[e].password = users[e].password
             /\ Rests
  <2>1. /\ UNCHANGED tableVars /\ late' \subseteq late \cup Abandoned({c}, {})
        /\ pc'[c] = "error"
    BY <1>7, <1>a DEF LoginFails, Goto
  <2>2. ASSUME NEW d \in Attempt, Recording(d)', ~Recording(d)
        PROVE  pc[d] = "record" /\ d = c
    BY <2>1, <2>2 DEF Recording, Abandoned
  <2>3. QED
    BY <2>1, <2>2 DEF tableVars, Rests
<1>8. CASE Crash
  <2>1. /\ UNCHANGED tableVars /\ late' \subseteq late \cup Abandoned(Attempt, Signup)
        /\ \A c \in Attempt : pc[c] = "record" => pc'[c] = "lost"
    BY <1>8 DEF Crash, Running
  <2>2. ASSUME NEW d \in Attempt, Recording(d)', ~Recording(d)
        PROVE  pc[d] = "record"
    BY <2>1, <2>2 DEF Recording, Abandoned
  <2>3. QED
    BY <2>1, <2>2 DEF tableVars, Rests
<1>9. CASE CarryOutLate
  <2>1. PICK t \in late : CarryOut(t) /\ late' = late \ {t}
    BY <1>9 DEF CarryOutLate
  <2>2. pc' = pc /\ \A c \in Attempt : Recording(c)' => Recording(c)
    BY <1>9, <2>1 DEF CarryOutLate, loginVars, Recording
  <2>3. CASE t.op = "record" /\ RecordLogin(t.by)
    <3>1. t.by \in Attempt /\ t = [op |-> "record", by |-> t.by]
      BY <1>a, <2>1, <2>3 DEF Statement
    <3>2. Recording(t.by) /\ ~Recording(t.by)'
      BY <2>1, <3>1 DEF Recording
    <3>3. Adds(t.by)
      BY <2>2, <2>3, <3>1, <3>2, RecordingKeeps DEF Adds
    <3>4. QED
      BY <2>3, <3>1, <3>3, RecordingKeeps
  <2>4. CASE t.op = "create" /\ Create(t.by)
    <3>1. t.by \in Signup
      BY <1>a, <2>1, <2>4 DEF Statement
    <3>2. QED
      BY <2>2, <2>4, <3>1, CreatingKeeps DEF Rests
  <2>5. QED
    BY <2>1, <2>3, <2>4 DEF CarryOut
<1>10. QED
  BY <1>b, <1>1, <1>2, <1>3, <1>4, <1>5, <1>6, <1>7, <1>8, <1>9 DEF Next

-----------------------------------------------------------------------------
(* Travel.                                                                  *)

\* The order of an account grows at its end.
LEMMA AddsToOrder ==
  ASSUME TypeOK, NEW d \in Attempt, Adds(d), NEW e \in Email
  PROVE  /\ Len(order[e]) \in Nat /\ Len(order'[e]) \in Nat
         /\ \A i \in 1..Len(order[e]) : i \in 1..Len(order'[e]) /\ order'[e][i] = order[e][i]
         /\ \A i \in 1..Len(order'[e]) :
              i \in 1..Len(order[e])
                \/ (e = EmailOf(d) /\ i = Len(order[e]) + 1 /\ order'[e][i] = d)
         /\ e = EmailOf(d) => /\ Len(order'[e]) = Len(order[e]) + 1
                              /\ order'[e][Len(order'[e])] = d
         /\ e # EmailOf(d) => order'[e] = order[e]
<1>1. order[e] \in Seq(Attempt)
  BY DEF TypeOK
<1>2. CASE e # EmailOf(d)
  <2>1. order'[e] = order[e]
    BY <1>2 DEF Adds
  <2>2. QED
    BY <1>1, <1>2, <2>1
<1>3. CASE e = EmailOf(d)
  <2>1. order'[e] = Append(order[e], d)
    BY <1>3 DEF Adds
  <2>2. /\ Len(order[e]) \in Nat /\ Len(order'[e]) = Len(order[e]) + 1
        /\ \A i \in 1..Len(order[e]) : order'[e][i] = order[e][i]
        /\ order'[e][Len(order[e]) + 1] = d
    BY <1>1, <2>1
  <2>3. QED
    BY <1>3, <2>2
<1>4. QED
  BY <1>2, <1>3

LEMMA TableAfter ==
  ASSUME TypeOK, Grows, Rests \/ (\E d \in Attempt : Adds(d)), NEW c \in Attempt
  PROVE  /\ Recorded(EmailOf(c)) \subseteq Recorded(EmailOf(c))'
         /\ InTable(c)' => InTable(c) \/ Adds(c)
         /\ Recording(c)' => Recording(c) \/ (pc[c] = "record" /\ pc'[c] \in {"error", "lost"})
<1>1. EmailOf(c)' = EmailOf(c) /\ EmailOf(c) \in Email
  BY DEF Grows, EmailOf, TypeOK, Request
<1>2. CASE Rests
  BY <1>1, <1>2 DEF Rests, Recorded, InTable
<1>3. CASE \E d \in Attempt : Adds(d)
  <2>1. PICK d \in Attempt : Adds(d)
    BY <1>3
  <2> DEFINE e == EmailOf(c)
  <2>2. /\ \A i \in 1..Len(order[e]) : i \in 1..Len(order'[e]) /\ order'[e][i] = order[e][i]
        /\ \A i \in 1..Len(order'[e]) : i \in 1..Len(order[e]) \/ order'[e][i] = d
    BY <1>1, <2>1, AddsToOrder
  <2>3. Recorded(e) \subseteq Recorded(e)' /\ Recorded(e)' \subseteq Recorded(e) \cup {d}
    BY <1>1, <2>2 DEF Recorded
  <2>4. InTable(c)' => InTable(c) \/ c = d
    BY <1>1, <2>3 DEF InTable
  <2>5. Recording(c)' => Recording(c)
    <3>1. CASE c = d
      BY <2>1, <3>1 DEF Adds, Recording
    <3>2. CASE c # d
      BY <2>1, <3>2 DEF Adds
    <3>3. QED
      BY <3>1, <3>2
  <2>6. QED
    BY <1>1, <2>1, <2>3, <2>4, <2>5
<1>4. QED
  BY <1>2, <1>3

\* A login passes by its lookup only.
LEMMA Passing ==
  ASSUME TypeOK, NEW c \in Attempt, Grows, Goes(c),
         Rests \/ (\E d \in Attempt : Adds(d)), Passed(c)'
  PROVE  \/ Passed(c)
         \/ /\ pc[c] = "lookup" /\ pc'[c] = "resetIp"
            /\ users[EmailOf(c)].password = req[c].password
            /\ seen'[c] = users[EmailOf(c)].last /\ before'[c] = before[c]
<1>1. InTable(c)' => InTable(c) \/ Recording(c) \/ pc[c] = "record"
  BY TableAfter DEF Adds
<1>2. Recording(c)' => Recording(c) \/ pc[c] = "record"
  BY TableAfter
<1>3. CASE pc'[c] \in {"resetIp", "resetAccount", "tellTravel", "record", "issue", "pair"}
  BY <1>3 DEF Goes, Passed
<1>4. QED
  BY <1>1, <1>2, <1>3 DEF Passed

LEMMA AdmissionStep ==
  ASSUME AdmissionInv, [Next]_vars
  PROVE  AdmissionInv'
<1>a. TypeOK /\ Grows /\ \A c \in Attempt : Goes(c)
  BY LoginGoes DEF AdmissionInv
<1>b. /\ \A e \in Email : Registered(e) => users'[e].password = users[e].password
      /\ Rests \/ \E d \in Attempt : Adds(d)
  BY <1>a, TableMoves
<1>1. ASSUME NEW c \in Attempt, Passed(c)'
      PROVE  users'[EmailOf(c)'].password = req'[c].password
  <2>1. EmailOf(c)' = EmailOf(c) /\ req'[c] = req[c] /\ EmailOf(c) \in Email
    BY <1>a DEF Grows, EmailOf, TypeOK, Request
  <2>2. users[EmailOf(c)].password = req[c].password
    BY <1>1, <1>a, <1>b, Passing DEF AdmissionInv, Admitted
  <2>3. Registered(EmailOf(c))
    BY <1>a, <2>2, LoginAssumption DEF Registered, TypeOK, Request
  <2>4. QED
    BY <1>b, <2>1, <2>2, <2>3
<1>2. \A c \in Attempt : Admitted(c)'
  BY <1>1 DEF Admitted
<1>3. QED
  BY <1>2, StepTypes DEF AdmissionInv

LEMMA AdmissionInvariance == Spec => []AdmissionInv
  BY InitAdmission, AdmissionStep, PTL DEF Spec

\* Every variable keeps its type, and only a registered email has a last login.
THEOREM LoginTypes == Spec => []TypeOK
  BY AdmissionInvariance, PTL DEF AdmissionInv

LEMMA OrderStep ==
  ASSUME TypeOK, NEW e \in Email, OrderTells(e), Grows,
         \A c \in Attempt : RecordedOnce(c),
         Rests \/ (\E d \in Attempt : Adds(d))
  PROVE  OrderTells(e)'
<1>1. req' = req
  BY DEF Grows
<1>2. CASE Rests
  <2>1. order'[e] = order[e] /\ users'[e].last = users[e].last
    BY <1>2 DEF Rests
  <2>2. QED
    BY <1>1, <2>1 DEF OrderTells, EmailOf
<1>3. ASSUME NEW d \in Attempt, Adds(d)
      PROVE  OrderTells(e)'
  <2>1. CASE e # EmailOf(d)
    <3>1. order'[e] = order[e] /\ users'[e].last = users[e].last
      BY <1>3, <2>1 DEF Adds
    <3>2. QED
      BY <1>1, <3>1 DEF OrderTells, EmailOf
  <2>2. CASE e = EmailOf(d)
    <3>1. /\ Len(order[e]) \in Nat /\ Len(order'[e]) = Len(order[e]) + 1
          /\ order'[e][Len(order'[e])] = d
          /\ \A i \in 1..Len(order[e]) : i \in 1..Len(order'[e]) /\ order'[e][i] = order[e][i]
          /\ \A i \in 1..Len(order'[e]) :
               i \in 1..Len(order[e]) \/ (i = Len(order[e]) + 1 /\ order'[e][i] = d)
      BY <1>3, <2>2, AddsToOrder
    <3>2. d \notin Recorded(e)
      BY <1>3, <2>2 DEF Adds, RecordedOnce, InTable, Done
    <3>3. \A i \in 1..Len(order[e]) : order[e][i] # d
      BY <3>2 DEF Recorded
    <3>4. users'[e].last = d /\ order'[e] # <<>>
      BY <1>3, <2>2, <3>1 DEF Adds
    <3>a. \A i \in 1..Len(order[e]) : req[order[e][i]].email = e
      BY DEF OrderTells, EmailOf
    <3>5. \A i \in 1..Len(order'[e]) : req'[order'[e][i]].email = e
      BY <1>1, <2>2, <3>1, <3>a DEF EmailOf
    <3>6. \A i, j \in 1..Len(order'[e]) : order'[e][i] = order'[e][j] => i = j
      BY <3>1, <3>3 DEF OrderTells
    <3>7. QED
      BY <3>1, <3>4, <3>5, <3>6 DEF OrderTells, EmailOf
  <2>3. QED
    BY <2>1, <2>2
<1>4. QED
  BY <1>2, <1>3

LEMMA OnceStep ==
  ASSUME TypeOK, NEW c \in Attempt, RecordedOnce(c), Grows, Goes(c),
         Rests \/ (\E d \in Attempt : Adds(d))
  PROVE  RecordedOnce(c)'
<1>1. /\ InTable(c)' => InTable(c) \/ Adds(c)
      /\ Recording(c)' => Recording(c) \/ (pc[c] = "record" /\ pc'[c] \in {"error", "lost"})
  BY TableAfter
<1>2. pc[c] \in Done => pc'[c] \in Done
  BY DEF Goes, Done, Running
<1>3. Adds(c) => pc'[c] \in Done /\ ~Recording(c)'
  BY DEF Adds, RecordedOnce, Recording, Done
<1>4. QED
  BY <1>1, <1>2, <1>3 DEF RecordedOnce, Done

LEMMA SawStep ==
  ASSUME TypeOK, NEW c \in Attempt, Saw(c), Arrived(c), RecordedOnce(c), Grows, Goes(c),
         OrderTells(EmailOf(c)), Rests \/ (\E d \in Attempt : Adds(d))
  PROVE  Saw(c)' /\ Arrived(c)'
<1> DEFINE e == EmailOf(c)
           s == order[e]
<1>a. e' = e /\ e \in Email /\ s \in Seq(Attempt)
  BY DEF Grows, EmailOf, TypeOK, Request
<1>b. Recorded(e) \subseteq Recorded(e)'
  BY TableAfter
<1>1. Arrived(c)'
  BY <1>a, <1>b DEF Arrived, Goes
<1>2. ASSUME Passed(c)'
      PROVE  \/ seen'[c] = Nobody /\ before'[c] = {}
             \/ \E p \in 1..Len(order'[e]) :
                  /\ order'[e][p] = seen'[c]
                  /\ \A b \in before'[c] : \E k \in 1..p : order'[e][k] = b
                  /\ \A j \in 1..Len(order'[e]) : order'[e][j] = c => p < j
  <2>1. CASE Passed(c)
    <3>1. seen'[c] = seen[c] /\ before'[c] = before[c]
      BY <2>1 DEF Goes, Passed, RecordedOnce, Done
    <3>2. CASE seen[c] = Nobody /\ before[c] = {}
      BY <3>1, <3>2
    <3>3. CASE ~(seen[c] = Nobody /\ before[c] = {})
      <4>1. PICK p \in 1..Len(s) :
              /\ s[p] = seen[c]
              /\ \A b \in before[c] : \E k \in 1..p : s[k] = b
              /\ \A j \in 1..Len(s) : s[j] = c => p < j
        BY <2>1, <3>3 DEF Saw
      <4>2. CASE order' = order
        BY <3>1, <4>1, <4>2
      <4>3. CASE \E d \in Attempt : Adds(d)
        <5>1. PICK d \in Attempt : Adds(d)
          BY <4>3
        <5>2. /\ Len(s) \in Nat
              /\ \A i \in 1..Len(s) : i \in 1..Len(order'[e]) /\ order'[e][i] = s[i]
              /\ \A i \in 1..Len(order'[e]) : i \in 1..Len(s) \/ i = Len(s) + 1
          BY <1>a, <5>1, AddsToOrder
        <5>3. \A k \in 1..p : k \in 1..Len(s)
          BY <5>2
        <5>4. p \in 1..Len(order'[e]) /\ order'[e][p] = seen'[c]
          BY <3>1, <4>1, <5>2
        <5>5. \A b \in before'[c] : \E k \in 1..p : order'[e][k] = b
          BY <3>1, <4>1, <5>2, <5>3
        <5>6. \A j \in 1..Len(order'[e]) : order'[e][j] = c => p < j
          BY <4>1, <5>2
        <5>7. QED
          BY <5>4, <5>5, <5>6
      <4>4. QED
        BY <4>2, <4>3 DEF Rests
    <3>4. QED
      BY <3>2, <3>3
  <2>2. CASE ~Passed(c)
    <3>1. /\ pc[c] = "lookup" /\ pc'[c] = "resetIp"
          /\ seen'[c] = users[e].last /\ before'[c] = before[c]
      BY <1>2, <2>2, Passing
    <3>2. order' = order
      BY <3>1 DEF Adds, Rests
    <3>3. c \notin Recorded(e) /\ before[c] \subseteq Recorded(e)
      BY <3>1 DEF RecordedOnce, InTable, Done, Arrived
    <3>4. CASE s = <<>>
      BY <3>1, <3>3, <3>4 DEF OrderTells, Recorded
    <3>5. CASE s # <<>>
      <4>1. Len(s) \in 1..Len(s) /\ s[Len(s)] = seen'[c]
        BY <1>a, <3>1, <3>5 DEF OrderTells
      <4>2. \A b \in before[c] : \E k \in 1..Len(s) : s[k] = b
        BY <3>3 DEF Recorded
      <4>3. \A j \in 1..Len(s) : s[j] # c
        BY <3>3 DEF Recorded
      <4>4. QED
        BY <3>1, <3>2, <4>1, <4>2, <4>3
    <3>6. QED
      BY <3>4, <3>5
  <2>3. QED
    BY <2>1, <2>2
<1>3. QED
  BY <1>1, <1>2, <1>a, SMTT(30) DEF Saw

LEMMA TravelReportStep ==
  ASSUME TypeOK, NEW c \in Attempt, TravelReported(c), RecordedOnce(c), Grows, Goes(c),
         Rests \/ (\E d \in Attempt : Adds(d))
  PROVE  TravelReported(c)'
<1>a. SUFFICES ASSUME ImpossibleTravel(c, gap[c])',
                      (pc'[c] \in {"record", "issue", "pair"} \/ InTable(c)' \/ Recording(c)')
               PROVE  Told("impossible_travel", c)'
  BY DEF TravelReported
<1>1. Told("impossible_travel", c) => Told("impossible_travel", c)'
  BY DEF Told, Grows
<1>2. seen'[c] = seen[c] => ImpossibleTravel(c, gap'[c])
  BY <1>a DEF ImpossibleTravel, Grows
<1>3. /\ InTable(c)' => InTable(c) \/ Recording(c) \/ pc[c] = "record"
      /\ Recording(c)' => Recording(c) \/ pc[c] = "record"
  BY TableAfter DEF Adds
<1>4. CASE pc[c] \in {"record", "issue", "pair"} \/ InTable(c) \/ Recording(c)
  <2>1. seen'[c] = seen[c] /\ gap'[c] = gap[c]
    BY <1>4 DEF Goes, RecordedOnce, Done
  <2>2. QED
    BY <1>1, <1>2, <1>4, <2>1 DEF TravelReported
<1>5. CASE ~(pc[c] \in {"record", "issue", "pair"} \/ InTable(c) \/ Recording(c))
  <2>1. pc'[c] \in {"record", "issue", "pair"}
    BY <1>a, <1>3, <1>5
  <2>2. Told("impossible_travel", c)' \/ (seen'[c] = seen[c] /\ ~ImpossibleTravel(c, gap'[c]))
    BY <1>5, <2>1 DEF Goes
  <2>3. QED
    BY <1>2, <2>2
<1>6. QED
  BY <1>4, <1>5

LEMMA InitTravel == Init => TravelInv
<1> SUFFICES ASSUME Init PROVE TravelInv
  OBVIOUS
<1>1. AdmissionInv
  BY InitAdmission
<1>2. \A e \in Email : order[e] = <<>> /\ users[e].last = Nobody
  BY DEF Init
<1>3. \A c \in Attempt : EmailOf(c) \in Email
  BY <1>1 DEF AdmissionInv, TypeOK, EmailOf, Request
<1>4. \A c \in Attempt : pc[c] = "idle" /\ ~InTable(c) /\ ~Recording(c) /\ before[c] = {}
  BY <1>2, <1>3 DEF Init, InTable, Recorded, Recording
<1>5. \A e \in Email : OrderTells(e)
  BY <1>2 DEF OrderTells
<1>6. \A c \in Attempt : RecordedOnce(c) /\ Saw(c) /\ Arrived(c) /\ TravelReported(c)
  BY <1>4 DEF RecordedOnce, Saw, Passed, Arrived, TravelReported
<1>7. QED
  BY <1>1, <1>5, <1>6 DEF TravelInv

LEMMA TravelStep ==
  ASSUME TravelInv, [Next]_vars
  PROVE  TravelInv'
<1>1. TypeOK /\ Grows /\ (\A c \in Attempt : Goes(c)) /\ AdmissionInv'
  BY LoginGoes, AdmissionStep DEF TravelInv, AdmissionInv
<1>2. Rests \/ \E d \in Attempt : Adds(d)
  BY <1>1, TableMoves
<1>3. \A e \in Email : OrderTells(e)'
  BY <1>1, <1>2, OrderStep DEF TravelInv
<1>4. ASSUME NEW c \in Attempt
      PROVE  RecordedOnce(c)' /\ Saw(c)' /\ Arrived(c)' /\ TravelReported(c)'
  <2>1. OrderTells(EmailOf(c))
    BY <1>1 DEF TravelInv, TypeOK, EmailOf, Request
  <2>2. QED
    BY <1>1, <1>2, <2>1, OnceStep, SawStep, TravelReportStep DEF TravelInv
<1>5. QED
  BY <1>1, <1>3, <1>4 DEF TravelInv

LEMMA TravelInvariance == Spec => []TravelInv
  BY InitTravel, TravelStep, PTL DEF Spec

\* A login that follows another of its account too soon and from too far away is
\* reported or its report failed, whatever else the gateway, the database and Redis do
\* meanwhile; logins that overlap escape, as the comparison is made with the row read at
\* the lookup, and those that the gateway's clock does not place after the last one
\* (auth_service.go:100-117, travel.go:46-57).
THEOREM TravelIsTold == Spec => []TravelTold
<1>1. TravelInv => TravelTold
  <2> SUFFICES ASSUME TravelInv, NEW c \in Attempt, NEW d \in Attempt,
                      Consecutive(c, d), TooFast(c, d), c \in before[d]
               PROVE  Told("impossible_travel", d)
    BY DEF TravelTold
  <2>0. PICK e \in Email :
          \E i \in 1..(Len(order[e]) - 1) : order[e][i] = c /\ order[e][i + 1] = d
    BY DEF Consecutive
  <2>1. PICK i \in 1..(Len(order[e]) - 1) : order[e][i] = c /\ order[e][i + 1] = d
    BY <2>0
  <2> DEFINE s == order[e]
  <2>2. s \in Seq(Attempt) /\ Len(s) \in Nat /\ OrderTells(e)
    BY DEF TravelInv, AdmissionInv, TypeOK
  <2>3. i \in 1..Len(s) /\ i + 1 \in 1..Len(s)
    BY <2>2
  <2>4. EmailOf(d) = e /\ InTable(d)
    BY <2>1, <2>2, <2>3 DEF OrderTells, InTable, Recorded
  <2>5. PICK p \in 1..Len(s) :
          /\ s[p] = seen[d]
          /\ \A b \in before[d] : \E k \in 1..p : s[k] = b
          /\ \A j \in 1..Len(s) : s[j] = d => p < j
    BY <2>4 DEF TravelInv, Saw, Passed
  <2>6. PICK k \in 1..p : s[k] = c
    BY <2>5
  <2>7. k \in 1..Len(s) /\ k = i
    BY <2>1, <2>2, <2>3, <2>6 DEF OrderTells
  <2>8. p < i + 1
    BY <2>1, <2>3, <2>5
  <2>9. p = i
    BY <2>7, <2>8
  <2>10. seen[d] = c /\ c # Nobody
    BY <2>1, <2>5, <2>9, LoginAssumption
  <2>11. ImpossibleTravel(d, gap[d])
    BY <2>10 DEF ImpossibleTravel, TooFast
  <2>12. QED
    BY <2>4, <2>11 DEF TravelInv, TravelReported
<1>2. QED
  BY <1>1, TravelInvariance, PTL

-----------------------------------------------------------------------------
(* Registrations.                                                           *)

LEMMA RegistrationStep ==
  ASSUME TypeOK, RegistrationStands, [Next]_vars
  PROVE  RegistrationStands'
<1>a. /\ form' = form
      /\ \A e \in Email : Registered(e) => users'[e].password = users[e].password
  BY LoginGoes, TableMoves DEF Grows
<1>b. \A s \in Signup : form[s].email \in Email /\ form[s].password \in Password
  BY DEF TypeOK, Form
<1>c. spc \in [Signup -> SignupPc]
  BY DEF TypeOK
<1>1. ASSUME NEW s \in Signup, spc[s] = "created"
      PROVE  users'[form'[s].email].password = form'[s].password
  <2>1. users[form[s].email].password = form[s].password
    BY <1>1 DEF RegistrationStands
  <2>2. Registered(form[s].email)
    BY <1>b, <2>1, LoginAssumption DEF Registered
  <2>3. QED
    BY <1>a, <1>b, <2>1, <2>2
<1>2. ASSUME NEW s \in Signup, CreateUser(s), spc'[s] = "created"
      PROVE  users'[form'[s].email].password = form'[s].password
  <2>1. Create(s) /\ ~Registered(form[s].email)
    BY <1>2, <1>c DEF CreateUser
  <2>2. QED
    BY <1>a, <2>1, CreatingKeeps
<1>3. ASSUME NEW s \in Signup, spc'[s] = "created"
      PROVE  spc[s] = "created" \/ CreateUser(s)
  <2>1. ASSUME NEW r \in Signup, SignUp(r) \/ CheckEmail(r) \/ CreateFails(r)
        PROVE  spc[s] = "created"
    <3>1. \E p \in {"check", "taken", "create"} : spc' = [spc EXCEPT ![r] = p]
      BY <2>1 DEF SignUp, CheckEmail, CreateFails
    <3>2. QED
      BY <1>3, <1>c, <3>1
  <2>2. ASSUME NEW r \in Signup, CreateUser(r)
        PROVE  spc[s] = "created" \/ CreateUser(s)
    BY <1>3, <1>c, <2>2 DEF CreateUser
  <2>3. ASSUME NEW c \in Attempt,
               \/ Arrive(c) \/ Lookup(c)
               \/ CountIp(c) \/ TellIp(c) \/ CountAccount(c) \/ TellAccount(c)
               \/ ResetIp(c) \/ ResetAccount(c) \/ TellTravel(c)
               \/ UpdateLastLogin(c) \/ Issue(c) \/ LoginFails(c)
        PROVE  spc[s] = "created"
    BY <1>3, <2>3
    DEF Arrive, Lookup, CountIp, TellIp, CountAccount, TellAccount, ResetIp, ResetAccount,
        TellTravel, UpdateLastLogin, Issue, LoginFails, signupVars
  <2>4. CASE Crash
    BY <1>3, <2>4 DEF Crash
  <2>5. CASE CarryOutLate \/ FailureExpires \/ UNCHANGED vars
    BY <1>3, <2>5 DEF CarryOutLate, FailureExpires, vars, signupVars
  <2>6. QED
    BY <2>1, <2>2, <2>3, <2>4, <2>5 DEF Next
<1>4. QED
  BY <1>1, <1>2, <1>3 DEF RegistrationStands

\* A registration that was confirmed stands: whoever registers the same email at the
\* same time or late, its password is the one that logs in.
THEOREM RegistrationsStand == Spec => []RegistrationStands
<1>1. Init => RegistrationStands
  BY DEF Init, RegistrationStands
<1>2. AdmissionInv /\ RegistrationStands /\ [Next]_vars => RegistrationStands'
  BY RegistrationStep DEF AdmissionInv
<1>3. QED
  BY <1>1, <1>2, AdmissionInvariance, PTL DEF Spec

-----------------------------------------------------------------------------
(* Bursts.                                                                  *)

\* Who is about to tell what.
Tells(type, c) ==
  \/ type = "impossible_travel" /\ pc[c] = "tellTravel"
  \/ type = "brute_force_ip" /\ pc[c] = "tellIp"
  \/ type = "brute_force_account" /\ pc[c] = "tellAccount"

\* A count rises by one, and only when a request of the key is counted.
LEMMA CountsMove ==
  ASSUME TypeOK, [Next]_vars
  PROVE  /\ \A k \in Ip : \/ byIp'[k] <= byIp[k]
                          \/ /\ byIp'[k] = byIp[k] + 1
                             /\ \E c \in Attempt : CountIp(c) /\ req[c].ip = k
         /\ \A k \in Email : \/ byAccount'[k] <= byAccount[k]
                             \/ /\ byAccount'[k] = byAccount[k] + 1
                                /\ \E c \in Attempt : CountAccount(c) /\ EmailOf(c) = k
<1> DEFINE IpMoves == \A k \in Ip : \/ byIp'[k] <= byIp[k]
                                    \/ /\ byIp'[k] = byIp[k] + 1
                                       /\ \E c \in Attempt : CountIp(c) /\ req[c].ip = k
           AccountMoves ==
             \A k \in Email : \/ byAccount'[k] <= byAccount[k]
                              \/ /\ byAccount'[k] = byAccount[k] + 1
                                 /\ \E c \in Attempt : CountAccount(c) /\ EmailOf(c) = k
<1>a. byIp \in [Ip -> Nat] /\ byAccount \in [Email -> Nat]
  BY DEF TypeOK
<1>b. byIp' = byIp => IpMoves
  BY <1>a
<1>c. byAccount' = byAccount => AccountMoves
  BY <1>a
<1>1. ASSUME UNCHANGED failureVars
      PROVE  IpMoves /\ AccountMoves
  BY <1>b, <1>c, <1>1 DEF failureVars
<1>2. ASSUME NEW s \in Signup, SignUp(s) \/ CheckEmail(s) \/ CreateUser(s) \/ CreateFails(s)
      PROVE  UNCHANGED failureVars
  BY <1>2 DEF SignUp, CheckEmail, CreateUser, CreateFails
<1>3. ASSUME NEW c \in Attempt,
             \/ Arrive(c) \/ Lookup(c) \/ TellIp(c) \/ TellAccount(c) \/ TellTravel(c)
             \/ UpdateLastLogin(c) \/ Issue(c) \/ LoginFails(c)
      PROVE  UNCHANGED failureVars
  BY <1>3 DEF Arrive, Lookup, TellIp, TellAccount, TellTravel, UpdateLastLogin, Issue,
              LoginFails
<1>4. CASE CarryOutLate \/ UNCHANGED vars
  <2>1. UNCHANGED failureVars
    BY <1>4 DEF CarryOutLate, vars
  <2>2. QED
    BY <1>1, <2>1
<1>5. ASSUME NEW c \in Attempt, CountIp(c)
      PROVE  IpMoves /\ AccountMoves
  <2>1. byIp' = [byIp EXCEPT ![req[c].ip] = @ + 1] /\ byAccount' = byAccount
    BY <1>5 DEF CountIp
  <2>2. QED
    BY <1>a, <1>c, <1>5, <2>1
<1>6. ASSUME NEW c \in Attempt, CountAccount(c)
      PROVE  IpMoves /\ AccountMoves
  <2>1. byAccount' = [byAccount EXCEPT ![EmailOf(c)] = @ + 1] /\ byIp' = byIp
    BY <1>6 DEF CountAccount
  <2>2. QED
    BY <1>a, <1>b, <1>6, <2>1
<1>7. ASSUME NEW c \in Attempt, ResetIp(c) \/ ResetAccount(c)
      PROVE  IpMoves /\ AccountMoves
  <2>1. /\ byIp' = byIp \/ byIp' = [byIp EXCEPT ![req[c].ip] = 0]
        /\ byAccount' = byAccount \/ byAccount' = [byAccount EXCEPT ![EmailOf(c)] = 0]
    BY <1>7 DEF ResetIp, ResetAccount
  <2>2. QED
    BY <1>a, <2>1
<1>8. CASE Crash
  <2>1. (\A k \in Ip : byIp'[k] = 0) /\ (\A k \in Email : byAccount'[k] = 0)
    BY <1>8 DEF Crash
  <2>2. QED
    BY <1>a, <2>1
<1>9. CASE FailureExpires
  <2>1. \/ byAccount' = byAccount
           /\ \E k \in Ip : byIp[k] > 0 /\ byIp' = [byIp EXCEPT ![k] = @ - 1]
        \/ byIp' = byIp
           /\ \E k \in Email : /\ byAccount[k] > 0
                               /\ byAccount' = [byAccount EXCEPT ![k] = @ - 1]
    BY <1>9 DEF FailureExpires
  <2>2. QED
    BY <1>a, <2>1
<1>10. QED
  BY <1>1, <1>2, <1>3, <1>4, <1>5, <1>6, <1>7, <1>8, <1>9 DEF Next

LEMMA BurstStep ==
  ASSUME AdmissionInv, BurstTold, [Next]_vars
  PROVE  BurstTold'
<1>a. TypeOK /\ Grows /\ \A c \in Attempt : Goes(c)
  BY LoginGoes DEF AdmissionInv
<1>b. /\ byIp \in [Ip -> Nat] /\ byAccount \in [Email -> Nat] /\ pc \in [Attempt -> Pc]
      /\ byIp' \in [Ip -> Nat] /\ byAccount' \in [Email -> Nat]
  BY <1>a, StepTypes DEF TypeOK
<1>c. req' = req /\ \A c \in Attempt : EmailOf(c)' = EmailOf(c)
  BY <1>a DEF Grows, EmailOf
<1>d. \A type, c : Told(type, c) => Told(type, c)'
  BY <1>a DEF Grows, Told
<1>1. CASE Crash
  BY <1>1, LoginAssumption DEF Crash, BurstTold
<1>2. CASE ~Crash
  <2>1. ASSUME NEW k \in Ip, byIp'[k] >= IpThreshold
        PROVE  \E c \in Attempt :
                 req[c].ip = k /\ (pc'[c] = "tellIp" \/ Told("brute_force_ip", c)')
    <3>1. CASE byIp'[k] <= byIp[k]
      <4>1. byIp[k] >= IpThreshold
        <5>1. byIp[k] \in Nat /\ IpThreshold \in Nat /\ byIp'[k] \in Nat
          BY <1>b, LoginAssumption
        <5>2. QED
          BY <2>1, <3>1, <5>1
      <4>2. PICK c \in Attempt :
              req[c].ip = k /\ (pc[c] = "tellIp" \/ Told("brute_force_ip", c))
        BY <4>1 DEF BurstTold
      <4>3. pc[c] = "tellIp" => pc'[c] = "tellIp" \/ Told("brute_force_ip", c)'
        BY <1>2, <1>a DEF Goes
      <4>4. QED
        BY <1>d, <4>2, <4>3
    <3>2. CASE \E c \in Attempt : CountIp(c) /\ req[c].ip = k
      <4>1. PICK c \in Attempt : CountIp(c) /\ req[c].ip = k
        BY <3>2
      <4>2. pc'[c] = "tellIp"
        BY <1>b, <2>1, <4>1 DEF CountIp, Goto, Burst
      <4>3. QED
        BY <4>1, <4>2
    <3>3. QED
      BY <1>a, <3>1, <3>2, CountsMove
  <2>2. ASSUME NEW k \in Email, byAccount'[k] >= AccountThreshold
        PROVE  \E c \in Attempt :
                 EmailOf(c) = k /\ (pc'[c] = "tellAccount" \/ Told("brute_force_account", c)')
    <3>1. CASE byAccount'[k] <= byAccount[k]
      <4>1. byAccount[k] >= AccountThreshold
        <5>1. byAccount[k] \in Nat /\ AccountThreshold \in Nat /\ byAccount'[k] \in Nat
          BY <1>b, LoginAssumption
        <5>2. QED
          BY <2>2, <3>1, <5>1
      <4>2. PICK c \in Attempt :
              EmailOf(c) = k /\ (pc[c] = "tellAccount" \/ Told("brute_force_account", c))
        BY <4>1 DEF BurstTold
      <4>3. pc[c] = "tellAccount" => pc'[c] = "tellAccount" \/ Told("brute_force_account", c)'
        BY <1>2, <1>a DEF Goes
      <4>4. QED
        BY <1>d, <4>2, <4>3
    <3>2. CASE \E c \in Attempt : CountAccount(c) /\ EmailOf(c) = k
      <4>1. PICK c \in Attempt : CountAccount(c) /\ EmailOf(c) = k
        BY <3>2
      <4>2. pc'[c] = "tellAccount"
        BY <1>b, <2>2, <4>1 DEF CountAccount, Goto, Burst
      <4>3. QED
        BY <4>1, <4>2
    <3>3. QED
      BY <1>a, <3>1, <3>2, CountsMove
  <2>3. QED
    BY <1>c, <2>1, <2>2 DEF BurstTold
<1>3. QED
  BY <1>1, <1>2

\* A count at its threshold was told, failed to be told, or is about to be, for any
\* thresholds and any number of requests.
THEOREM BurstsAreTold == Spec => []BurstTold
<1>1. Init => BurstTold
  BY LoginAssumption DEF Init, BurstTold
<1>2. AdmissionInv /\ BurstTold /\ [Next]_vars => BurstTold'
  BY BurstStep
<1>3. QED
  BY <1>1, <1>2, AdmissionInvariance, PTL DEF Spec

-----------------------------------------------------------------------------
(* Causes.                                                                  *)

\* A step starts at most one login.
LEMMA BusyGrows ==
  ASSUME TypeOK, [Next]_vars, IsFiniteSet(Busy)
  PROVE  IsFiniteSet(Busy')
<1>1. \E d : Busy' \subseteq Busy \cup {d}
  <2> USE DEF Goto
  <2>a. pc \in [Attempt -> Pc]
    BY DEF TypeOK
  <2>1. ASSUME NEW s \in Signup, SignUp(s) \/ CheckEmail(s) \/ CreateUser(s) \/ CreateFails(s)
        PROVE  pc' = pc
    BY <2>1 DEF SignUp, CheckEmail, CreateUser, CreateFails, loginVars
  <2>2. ASSUME NEW c \in Attempt,
               \/ Arrive(c) \/ Lookup(c) \/ CountIp(c) \/ TellIp(c) \/ CountAccount(c)
               \/ TellAccount(c) \/ ResetIp(c) \/ ResetAccount(c) \/ TellTravel(c)
               \/ UpdateLastLogin(c) \/ Issue(c) \/ LoginFails(c)
        PROVE  \A d \in Attempt : d # c => pc'[d] = pc[d]
    BY <2>a, <2>2
    DEF Arrive, Lookup, CountIp, TellIp, CountAccount, TellAccount, ResetIp, ResetAccount,
        TellTravel, UpdateLastLogin, Issue, LoginFails
  <2>3. CASE Crash
    <3>1. \A c \in Attempt : pc'[c] # "idle" => pc[c] # "idle"
      BY <2>3 DEF Crash, Running
    <3>2. QED
      BY <3>1 DEF Busy
  <2>4. CASE CarryOutLate \/ FailureExpires \/ UNCHANGED vars
    <3>1. pc' = pc
      BY <2>4 DEF CarryOutLate, FailureExpires, vars, loginVars
    <3>2. QED
      BY <3>1 DEF Busy
  <2>5. CASE pc' = pc
    BY <2>5 DEF Busy
  <2>6. CASE \E c \in Attempt : \A d \in Attempt : d # c => pc'[d] = pc[d]
    BY <2>6 DEF Busy
  <2>7. QED
    BY <2>1, <2>2, <2>3, <2>4, <2>5, <2>6 DEF Next
<1>2. PICK d : Busy' \subseteq Busy \cup {d}
  BY <1>1
<1>3. IsFiniteSet(Busy \cup {d})
  BY FS_AddElement
<1>4. QED
  BY <1>2, <1>3, FS_Subset

\* A failed request stays failed, and a warning is told by who stands before it.
LEMMA FailedStays ==
  ASSUME TypeOK, NEW c \in Attempt, Goes(c)
  PROVE  /\ Failed(c) => Failed(c)'
         /\ pc[c] \in {"tellAccount", "refused", "lost"} =>
              pc'[c] \in {"tellAccount", "refused", "lost"}
  BY DEF Goes, Failed, Running

LEMMA ToldByTelling ==
  ASSUME TypeOK, [Next]_vars, NEW w \in told'
  PROVE  \/ w \in told
         \/ /\ w.by \in Attempt
            /\ \/ w.type = "impossible_travel" /\ pc[w.by] = "tellTravel"
               \/ w.type = "brute_force_ip" /\ pc[w.by] = "tellIp"
               \/ w.type = "brute_force_account" /\ pc[w.by] = "tellAccount"
<1>1. ASSUME NEW s \in Signup, SignUp(s) \/ CheckEmail(s) \/ CreateUser(s) \/ CreateFails(s)
      PROVE  told' = told
  BY <1>1 DEF SignUp, CheckEmail, CreateUser, CreateFails, warningVars
<1>2. ASSUME NEW c \in Attempt,
             \/ Arrive(c) \/ Lookup(c) \/ CountIp(c) \/ CountAccount(c)
             \/ ResetIp(c) \/ ResetAccount(c) \/ UpdateLastLogin(c) \/ Issue(c)
             \/ LoginFails(c)
      PROVE  told' = told
  BY <1>2 DEF Arrive, Lookup, CountIp, CountAccount, ResetIp, ResetAccount, UpdateLastLogin,
              Issue, LoginFails, warningVars
<1>3. ASSUME NEW c \in Attempt, NEW type, Publish([type |-> type, by |-> c])
      PROVE  w \in told \/ (w.type = type /\ w.by = c)
  BY <1>3 DEF Publish
<1>4. ASSUME NEW c \in Attempt, TellIp(c) \/ TellAccount(c) \/ TellTravel(c)
      PROVE  \/ w \in told
             \/ /\ w.by \in Attempt
                /\ \/ w.type = "impossible_travel" /\ pc[w.by] = "tellTravel"
                   \/ w.type = "brute_force_ip" /\ pc[w.by] = "tellIp"
                   \/ w.type = "brute_force_account" /\ pc[w.by] = "tellAccount"
  BY <1>3, <1>4 DEF TellIp, TellAccount, TellTravel
<1>5. CASE Crash \/ CarryOutLate \/ FailureExpires \/ UNCHANGED vars
  BY <1>5 DEF Crash, CarryOutLate, FailureExpires, vars, warningVars
<1>6. QED
  BY <1>1, <1>2, <1>4, <1>5 DEF Next

\* What counts for a key is finite, and only grows.
LEMMA FailuresGrow ==
  ASSUME AdmissionInv, [Next]_vars, IsFiniteSet(Busy)
  PROVE  /\ \A k \in Ip : /\ IpFailed(k) \subseteq IpFailed(k)'
                          /\ IsFiniteSet(IpFailed(k)) /\ IsFiniteSet(IpFailed(k)')
                          /\ Cardinality(IpFailed(k)) <= Cardinality(IpFailed(k)')
         /\ \A k \in Email : /\ AccountFailed(k) \subseteq AccountFailed(k)'
                             /\ IsFiniteSet(AccountFailed(k)) /\ IsFiniteSet(AccountFailed(k)')
                             /\ Cardinality(AccountFailed(k)) <= Cardinality(AccountFailed(k)')
         /\ \A k \in Email : /\ AccountCounted(k) \subseteq AccountCounted(k)'
                             /\ IsFiniteSet(AccountCounted(k)) /\ IsFiniteSet(AccountCounted(k)')
                             /\ Cardinality(AccountCounted(k)) <= Cardinality(AccountCounted(k)')
                             /\ Cardinality(AccountCounted(k)') <= Cardinality(AccountFailed(k)')
<1>a. TypeOK /\ Grows /\ \A c \in Attempt : Goes(c)
  BY LoginGoes DEF AdmissionInv
<1>b. IsFiniteSet(Busy')
  BY <1>a, BusyGrows
<1>c. req' = req /\ \A c \in Attempt : EmailOf(c)' = EmailOf(c)
  BY <1>a DEF Grows, EmailOf
<1>1. ASSUME NEW k
      PROVE  IpFailed(k) \subseteq IpFailed(k)' /\ IsFiniteSet(IpFailed(k)')
  <2>1. IpFailed(k) \subseteq IpFailed(k)'
    BY <1>a, <1>c, FailedStays DEF IpFailed
  <2>2. IpFailed(k)' \subseteq Busy'
    BY DEF IpFailed, Busy, Failed
  <2>3. QED
    BY <1>b, <2>1, <2>2, FS_Subset
<1>2. ASSUME NEW k
      PROVE  AccountFailed(k) \subseteq AccountFailed(k)' /\ IsFiniteSet(AccountFailed(k)')
  <2>1. AccountFailed(k) \subseteq AccountFailed(k)'
    BY <1>a, <1>c, FailedStays DEF AccountFailed
  <2>2. AccountFailed(k)' \subseteq Busy'
    BY DEF AccountFailed, Busy, Failed
  <2>3. QED
    BY <1>b, <2>1, <2>2, FS_Subset
<1>3. ASSUME NEW k
      PROVE  /\ AccountCounted(k) \subseteq AccountCounted(k)'
             /\ AccountCounted(k)' \subseteq AccountFailed(k)'
  BY <1>a, <1>c, FailedStays DEF AccountCounted, AccountFailed, Failed
<1>4. QED
  BY <1>1, <1>2, <1>3, FS_Subset

LEMMA CountsStep ==
  ASSUME AdmissionInv, Counts, [Next]_vars
  PROVE  Counts'
<1>a. TypeOK /\ req' = req /\ IsFiniteSet(Busy)
  BY LoginGoes DEF AdmissionInv, Grows, Counts
<1>b. /\ pc \in [Attempt -> Pc]
      /\ byIp \in [Ip -> Nat] /\ byAccount \in [Email -> Nat]
      /\ byIp' \in [Ip -> Nat] /\ byAccount' \in [Email -> Nat]
  BY <1>a, StepTypes DEF TypeOK
<1>1. ASSUME NEW k \in Ip
      PROVE  byIp'[k] <= Cardinality(IpFailed(k)')
  <2> DEFINE F == IpFailed(k)
             G == IpFailed(k)'
  <2>1. /\ F \subseteq G /\ IsFiniteSet(F) /\ IsFiniteSet(G) /\ Cardinality(F) <= Cardinality(G)
        /\ byIp[k] <= Cardinality(F)
    BY <1>a, FailuresGrow DEF Counts
  <2>2. Cardinality(F) \in Nat /\ Cardinality(G) \in Nat /\ byIp[k] \in Nat /\ byIp'[k] \in Nat
    BY <1>b, <2>1, FS_CardinalityType
  <2>3. CASE byIp'[k] <= byIp[k]
    BY <2>1, <2>2, <2>3
  <2>4. CASE /\ byIp'[k] = byIp[k] + 1
             /\ \E c \in Attempt : CountIp(c) /\ req[c].ip = k
    <3>1. PICK c \in Attempt : CountIp(c) /\ req[c].ip = k
      BY <2>4
    <3>2. c \notin F /\ c \in G
      BY <1>a, <1>b, <3>1 DEF CountIp, Goto, IpFailed, Failed
    <3>3. IsFiniteSet(F \cup {c}) /\ Cardinality(F \cup {c}) = Cardinality(F) + 1
      BY <2>1, <3>2, FS_AddElement
    <3>4. Cardinality(F \cup {c}) <= Cardinality(G)
      BY <2>1, <3>2, FS_Subset
    <3>5. QED
      BY <2>1, <2>2, <2>4, <3>3, <3>4
  <2>5. QED
    BY <1>a, <2>3, <2>4, CountsMove
<1>2. ASSUME NEW k \in Email
      PROVE  byAccount'[k] <= Cardinality(AccountCounted(k)')
  <2> DEFINE F == AccountCounted(k)
             G == AccountCounted(k)'
  <2>1. /\ F \subseteq G /\ IsFiniteSet(F) /\ IsFiniteSet(G) /\ Cardinality(F) <= Cardinality(G)
        /\ byAccount[k] <= Cardinality(F)
    BY <1>a, FailuresGrow DEF Counts
  <2>2. /\ Cardinality(F) \in Nat /\ Cardinality(G) \in Nat
        /\ byAccount[k] \in Nat /\ byAccount'[k] \in Nat
    BY <1>b, <2>1, FS_CardinalityType
  <2>3. CASE byAccount'[k] <= byAccount[k]
    BY <2>1, <2>2, <2>3
  <2>4. CASE /\ byAccount'[k] = byAccount[k] + 1
             /\ \E c \in Attempt : CountAccount(c) /\ EmailOf(c) = k
    <3>1. PICK c \in Attempt : CountAccount(c) /\ EmailOf(c) = k
      BY <2>4
    <3>2. c \notin F /\ c \in G
      BY <1>a, <1>b, <3>1 DEF CountAccount, Goto, AccountCounted, EmailOf
    <3>3. IsFiniteSet(F \cup {c}) /\ Cardinality(F \cup {c}) = Cardinality(F) + 1
      BY <2>1, <3>2, FS_AddElement
    <3>4. Cardinality(F \cup {c}) <= Cardinality(G)
      BY <2>1, <3>2, FS_Subset
    <3>5. QED
      BY <2>1, <2>2, <2>4, <3>3, <3>4
  <2>5. QED
    BY <1>a, <2>3, <2>4, CountsMove
<1>3. IsFiniteSet(Busy')
  BY <1>a, BusyGrows
<1>4. QED
  BY <1>1, <1>2, <1>3 DEF Counts

\* A request is about to tell a burst only after counting its failure.
LEMMA TellsAfterCounting ==
  ASSUME TypeOK, [Next]_vars, NEW c \in Attempt
  PROVE  /\ pc'[c] = "tellIp" /\ pc[c] # "tellIp" => CountIp(c)
         /\ pc'[c] = "tellAccount" /\ pc[c] # "tellAccount" => CountAccount(c)
<1> USE DEF Goto
<1> SUFFICES ASSUME pc'[c] \in {"tellIp", "tellAccount"}, pc'[c] # pc[c]
             PROVE  /\ pc'[c] = "tellIp" => CountIp(c)
                    /\ pc'[c] = "tellAccount" => CountAccount(c)
  OBVIOUS
<1>a. pc \in [Attempt -> Pc]
  BY DEF TypeOK
<1>1. ASSUME NEW d \in Attempt,
             \/ Arrive(d) \/ Lookup(d) \/ TellIp(d) \/ TellAccount(d) \/ ResetIp(d)
             \/ ResetAccount(d) \/ TellTravel(d) \/ UpdateLastLogin(d) \/ Issue(d)
             \/ LoginFails(d)
      PROVE  FALSE
  <2>1. \/ \E p \in {"lookup", "resetIp", "countIp", "countAccount", "refused", "resetAccount",
                     "tellTravel", "record", "issue", "pair", "error"} :
             pc' = [pc EXCEPT ![d] = p]
        \/ pc' = pc
    BY <1>1 DEF Arrive, Lookup, TellIp, TellAccount, ResetIp, ResetAccount, TellTravel,
                UpdateLastLogin, Issue, LoginFails, loginVars
  <2>2. QED
    BY <1>a, <2>1
<1>2. ASSUME NEW d \in Attempt, CountIp(d)
      PROVE  pc'[c] = "tellIp" /\ CountIp(c)
  BY <1>a, <1>2 DEF CountIp
<1>3. ASSUME NEW d \in Attempt, CountAccount(d)
      PROVE  pc'[c] = "tellAccount" /\ CountAccount(c)
  BY <1>a, <1>3 DEF CountAccount
<1>4. ASSUME NEW s \in Signup, SignUp(s) \/ CheckEmail(s) \/ CreateUser(s) \/ CreateFails(s)
      PROVE  FALSE
  BY <1>4 DEF SignUp, CheckEmail, CreateUser, CreateFails, loginVars
<1>5. CASE Crash
  BY <1>5 DEF Crash
<1>6. CASE CarryOutLate \/ FailureExpires \/ UNCHANGED vars
  BY <1>6 DEF CarryOutLate, FailureExpires, vars, loginVars
<1>7. QED
  BY <1>1, <1>2, <1>3, <1>4, <1>5, <1>6 DEF Next

\* The cause of a warning about a login stays: rows keep their passwords and the
\* table its records.
LEMMA TravelCauseStays ==
  ASSUME AdmissionInv, [Next]_vars, NEW c \in Attempt, TravelCause(c)
  PROVE  TravelCause(c)'
<1>a. /\ TypeOK /\ Grows
      /\ \A e \in Email : Registered(e) => users'[e].password = users[e].password
      /\ Rests \/ \E d \in Attempt : Adds(d)
  BY LoginGoes, TableMoves DEF AdmissionInv
<1>b. /\ req' = req /\ EmailOf(c)' = EmailOf(c) /\ EmailOf(c) \in Email
      /\ req[c].password \in Password
  BY <1>a DEF Grows, EmailOf, TypeOK, Request
<1>1. Recorded(EmailOf(c)) \subseteq Recorded(EmailOf(c))'
  BY <1>a, TableAfter
<1>2. users'[EmailOf(c)].password = req[c].password
  BY <1>a, <1>b, LoginAssumption DEF TravelCause, Registered
<1>3. QED
  BY <1>b, <1>1, <1>2 DEF TravelCause

\* A login about to be reported saw another one, recorded before it, of its account.
LEMMA TravelHasCause ==
  ASSUME TravelInv, NEW c \in Attempt, NEW elapsed,
         pc[c] = "resetAccount", ImpossibleTravel(c, elapsed)
  PROVE  TravelCause(c)
<1>1. /\ seen[c] # Nobody /\ req[seen[c]].place # req[c].place
      /\ seen[c] \in Attempt /\ EmailOf(c) \in Email
  BY DEF ImpossibleTravel, TravelInv, AdmissionInv, TypeOK, EmailOf, Request
<1>2. Passed(c) /\ Admitted(c) /\ Saw(c) /\ RecordedOnce(c)
  BY DEF Passed, TravelInv, AdmissionInv
<1>3. seen[c] \in Recorded(EmailOf(c))
  BY <1>1, <1>2 DEF Saw, Recorded
<1>4. c \notin Recorded(EmailOf(c))
  BY <1>2 DEF RecordedOnce, InTable, Done
<1>5. QED
  BY <1>1, <1>2, <1>3, <1>4 DEF TravelCause, Admitted

LEMMA CausesStep ==
  ASSUME TravelInv, Counts, Counts', Causes, [Next]_vars
  PROVE  Causes'
<1>a. /\ TypeOK /\ AdmissionInv /\ Grows /\ IsFiniteSet(Busy)
      /\ \A c \in Attempt : Goes(c)
  BY LoginGoes DEF TravelInv, AdmissionInv, Counts
<1>b. /\ pc \in [Attempt -> Pc]
      /\ byIp' \in [Ip -> Nat] /\ byAccount' \in [Email -> Nat]
      /\ IpThreshold \in Nat /\ AccountThreshold \in Nat
  BY <1>a, StepTypes, LoginAssumption DEF TypeOK
<1>c. /\ req' = req
      /\ \A c \in Attempt : /\ EmailOf(c)' = EmailOf(c)
                            /\ EmailOf(c) \in Email /\ req[c].ip \in Ip
  BY <1>a DEF Grows, EmailOf, TypeOK, Request
<1>1. ASSUME NEW c \in Attempt, pc'[c] = "tellTravel"
      PROVE  TravelCause(c)'
  <2>1. pc[c] = "tellTravel" \/ (pc[c] = "resetAccount" /\ ImpossibleTravel(c, gap'[c]))
    BY <1>1, <1>a DEF Goes
  <2>2. TravelCause(c)
    BY <2>1, TravelHasCause DEF Causes
  <2>3. QED
    BY <1>a, <2>2, TravelCauseStays
<1>2. ASSUME NEW c \in Attempt, pc'[c] = "tellIp"
      PROVE  Cardinality(IpFailed(req[c].ip)') >= IpThreshold
  <2> DEFINE k == req[c].ip
  <2>1. /\ Cardinality(IpFailed(k)) \in Nat /\ Cardinality(IpFailed(k)') \in Nat
        /\ Cardinality(IpFailed(k)) <= Cardinality(IpFailed(k)')
    BY <1>a, <1>c, FailuresGrow, FS_CardinalityType
  <2>2. CASE pc[c] = "tellIp"
    <3>1. Cardinality(IpFailed(k)) >= IpThreshold
      BY <2>2 DEF Causes
    <3>2. QED
      BY <1>b, <2>1, <3>1
  <2>3. CASE pc[c] # "tellIp"
    <3>1. CountIp(c)
      BY <1>2, <1>a, <2>3, TellsAfterCounting
    <3>2. byIp'[k] >= IpThreshold
      BY <1>2, <1>b, <3>1 DEF CountIp, Goto, Burst
    <3>3. byIp'[k] \in Nat /\ byIp'[k] <= Cardinality(IpFailed(k)')
      BY <1>b, <1>c DEF Counts
    <3>4. QED
      BY <1>b, <2>1, <3>2, <3>3
  <2>4. QED
    BY <2>2, <2>3
<1>3. ASSUME NEW c \in Attempt, pc'[c] = "tellAccount"
      PROVE  Cardinality(AccountFailed(EmailOf(c))') >= AccountThreshold
  <2> DEFINE k == EmailOf(c)
  <2>1. /\ Cardinality(AccountFailed(k)) \in Nat /\ Cardinality(AccountFailed(k)') \in Nat
        /\ Cardinality(AccountFailed(k)) <= Cardinality(AccountFailed(k)')
        /\ Cardinality(AccountCounted(k)') \in Nat
        /\ Cardinality(AccountCounted(k)') <= Cardinality(AccountFailed(k)')
    BY <1>a, <1>c, FailuresGrow, FS_CardinalityType
  <2>2. CASE pc[c] = "tellAccount"
    <3>1. Cardinality(AccountFailed(k)) >= AccountThreshold
      BY <2>2 DEF Causes
    <3>2. QED
      BY <1>b, <2>1, <3>1
  <2>3. CASE pc[c] # "tellAccount"
    <3>1. CountAccount(c)
      BY <1>3, <1>a, <2>3, TellsAfterCounting
    <3>2. byAccount'[k] >= AccountThreshold
      BY <1>3, <1>b, <3>1 DEF CountAccount, Goto, Burst
    <3>3. byAccount'[k] \in Nat /\ byAccount'[k] <= Cardinality(AccountCounted(k)')
      BY <1>b, <1>c DEF Counts
    <3>4. QED
      BY <1>b, <2>1, <3>2, <3>3
  <2>4. QED
    BY <2>2, <2>3
<1>4. QED
  BY <1>1, <1>2, <1>3, <1>c DEF Causes, EmailOf

LEMMA WarningsStep ==
  ASSUME CauseInv, [Next]_vars
  PROVE  WarningsHaveCause'
<1>a. /\ TypeOK /\ AdmissionInv /\ Grows /\ IsFiniteSet(Busy)
      /\ told' \subseteq Warning /\ told \subseteq Warning
  BY LoginGoes, StepTypes DEF CauseInv, TravelInv, AdmissionInv, Counts, TypeOK
<1>b. IpThreshold \in Nat /\ AccountThreshold \in Nat
  BY LoginAssumption
<1>1. ASSUME NEW w \in told'
      PROVE  /\ w.by \in Attempt /\ EmailOf(w.by) \in Email /\ req[w.by].ip \in Ip
             /\ req' = req /\ EmailOf(w.by)' = EmailOf(w.by)
  BY <1>a, <1>1 DEF Warning, Grows, EmailOf, TypeOK, Request
<1>2. ASSUME NEW w \in told', w.type = "impossible_travel"
      PROVE  TravelCause(w.by)'
  <2>1. TravelCause(w.by)
    <3>1. CASE w \in told
      <4>1. WarningsHaveCause
        BY DEF CauseInv
      <4>2. QED
        BY <1>2, <3>1, <4>1 DEF WarningsHaveCause, TravelCause
    <3>2. CASE pc[w.by] = "tellTravel"
      BY <1>1, <3>2 DEF CauseInv, Causes
    <3>3. QED
      BY <1>a, <1>2, <3>1, <3>2, ToldByTelling
  <2>2. QED
    BY <1>a, <1>1, <2>1, TravelCauseStays
<1>3. ASSUME NEW w \in told', w.type = "brute_force_ip"
      PROVE  Cardinality(IpFailed(req[w.by].ip)') >= IpThreshold
  <2> DEFINE k == req[w.by].ip
  <2>1. Cardinality(IpFailed(k)) >= IpThreshold
    <3>1. CASE w \in told
      <4>1. WarningsHaveCause
        BY DEF CauseInv
      <4>2. QED
        BY <1>3, <3>1, <4>1 DEF WarningsHaveCause, IpFailed
    <3>2. CASE pc[w.by] = "tellIp"
      BY <1>1, <3>2 DEF CauseInv, Causes
    <3>3. QED
      BY <1>a, <1>3, <3>1, <3>2, ToldByTelling
  <2>2. /\ Cardinality(IpFailed(k)) \in Nat /\ Cardinality(IpFailed(k)') \in Nat
        /\ Cardinality(IpFailed(k)) <= Cardinality(IpFailed(k)')
    BY <1>a, <1>1, FailuresGrow, FS_CardinalityType
  <2>3. QED
    BY <1>b, <2>1, <2>2
<1>4. ASSUME NEW w \in told', w.type = "brute_force_account"
      PROVE  Cardinality(AccountFailed(EmailOf(w.by))') >= AccountThreshold
  <2> DEFINE k == EmailOf(w.by)
  <2>1. Cardinality(AccountFailed(k)) >= AccountThreshold
    <3>1. CASE w \in told
      <4>1. WarningsHaveCause
        BY DEF CauseInv
      <4>2. QED
        BY <1>4, <3>1, <4>1 DEF WarningsHaveCause, AccountFailed
    <3>2. CASE pc[w.by] = "tellAccount"
      BY <1>1, <3>2 DEF CauseInv, Causes
    <3>3. QED
      BY <1>a, <1>4, <3>1, <3>2, ToldByTelling
  <2>2. /\ Cardinality(AccountFailed(k)) \in Nat /\ Cardinality(AccountFailed(k)') \in Nat
        /\ Cardinality(AccountFailed(k)) <= Cardinality(AccountFailed(k)')
    BY <1>a, <1>1, FailuresGrow, FS_CardinalityType
  <2>3. QED
    BY <1>b, <2>1, <2>2
<1>5. QED
  BY <1>1, <1>2, <1>3, <1>4 DEF WarningsHaveCause, TravelCause, IpFailed, AccountFailed, EmailOf

LEMMA CauseStep ==
  ASSUME CauseInv, [Next]_vars
  PROVE  CauseInv'
<1>1. TravelInv'
  BY TravelStep DEF CauseInv
<1>2. Counts'
  BY CountsStep DEF CauseInv, TravelInv
<1>3. Causes'
  BY <1>2, CausesStep DEF CauseInv
<1>4. QED
  BY <1>1, <1>2, <1>3, WarningsStep DEF CauseInv

\* Every warning that Redis took has its cause, for any thresholds, windows that expire,
\* trackers that die with the gateway and statements carried out late.
THEOREM WarningsAreCaused == Spec => []WarningsHaveCause
<1>1. Init => CauseInv
  <2> SUFFICES ASSUME Init PROVE CauseInv
    OBVIOUS
  <2>1. TravelInv
    BY InitTravel
  <2>2. Busy = {} /\ \A k : IpFailed(k) = {} /\ AccountCounted(k) = {}
    BY DEF Init, Busy, IpFailed, AccountCounted, Failed
  <2>3. Counts
    <3>1. IsFiniteSet({}) /\ Cardinality({}) = 0
      BY FS_EmptySet
    <3>2. /\ IsFiniteSet(Busy)
          /\ \A k : Cardinality(IpFailed(k)) = 0 /\ Cardinality(AccountCounted(k)) = 0
      BY <2>2, <3>1
    <3>3. (\A k \in Ip : byIp[k] = 0) /\ \A k \in Email : byAccount[k] = 0
      BY DEF Init
    <3>4. QED
      BY <3>2, <3>3 DEF Counts
  <2>4. Causes /\ WarningsHaveCause
    BY DEF Init, Causes, WarningsHaveCause
  <2>5. QED
    BY <2>1, <2>3, <2>4 DEF CauseInv
<1>2. CauseInv /\ [Next]_vars => CauseInv'
  BY CauseStep
<1>3. CauseInv => WarningsHaveCause
  BY DEF CauseInv
<1>4. QED
  BY <1>1, <1>2, <1>3, PTL DEF Spec

-----------------------------------------------------------------------------
(* The scenario. What reaches the account's recent events was told by the   *)
(* gateway, in the scenario's own two logins only the second can be too far *)
(* from the other.                                                          *)

\* What waits in the pipe and what is recorded was published, under its own account.
FeedInv ==
  /\ sent \subseteq {MessageOf(w) : w \in told}
  /\ pipe \in Seq(sent \cup {Confirmation})
  /\ recent \in [Email -> SUBSET sent]
  /\ \A a \in Email : \A m \in recent[a] : m.account = a

\* The first login of a new account has nothing to compare with.
FirstAlone ==
  /\ DemoRequests
  /\ pc[second] # "idle" => pc[first] = "pair"
  /\ seen[first] = Nobody /\ pc[first] # "tellTravel"
  /\ [type |-> "impossible_travel", by |-> first] \notin told

ScenarioInv == TravelInv /\ FeedInv /\ FirstAlone /\ ReadyMeansWarned

\* The gateway of the scenario is LoginSignals': the scenario orders requests and
\* carries messages on, and touches nothing else.
LEMMA ScenarioSteps == [ScenarioNext]_allVars => [Next]_vars
<1>1. Gateway => Next
  BY DEF Gateway
<1>2. GatewayRestarts => Next
  BY DEF GatewayRestarts, Next
<1>3. SetupFails \/ SetupEnds \/ Poll \/ Listener \/ PythonRestarts \/ UNCHANGED allVars
        => UNCHANGED vars
  BY DEF SetupFails, SetupEnds, Poll, Listener, PythonRestarts, allVars
<1>4. QED
  BY <1>1, <1>2, <1>3 DEF ScenarioNext

THEOREM ScenarioIsLogins == ScenarioSpec => Spec
<1>1. ScenarioInit => Init
  BY DEF ScenarioInit
<1>2. QED
  BY <1>1, ScenarioSteps, PTL DEF ScenarioSpec, Spec

LEMMA MessagesStay ==
  ASSUME Grows
  PROVE  /\ \A w : MessageOf(w)' = MessageOf(w)
         /\ DemoAccount' = DemoAccount
  BY DEF Grows, MessageOf, DemoAccount, EmailOf

\* The feed only passes on what was published.
LEMMA FeedMoves ==
  ASSUME FeedInv, Feed!FeedStep \/ Feed!Restart
  PROVE  /\ sent' = sent
         /\ pipe' \in Seq(sent \cup {Confirmation})
         /\ recent' \in [Email -> SUBSET sent]
         /\ \A a \in Email : \A m \in recent'[a] : m.account = a
<1>a. /\ pipe \in Seq(sent \cup {Confirmation}) /\ recent \in [Email -> SUBSET sent]
      /\ \A a \in Email : \A m \in recent[a] : m.account = a
  BY DEF FeedInv
<1>1. CASE Feed!Drop
  <2>1. PICK n \in 0..Len(pipe) : pipe' = SubSeq(pipe, 1, n)
    BY <1>1 DEF Feed!Drop
  <2>2. pipe' \in Seq(sent \cup {Confirmation})
    BY <1>a, <2>1, SubSeqProperties
  <2>3. QED
    BY <1>1, <1>a, <2>2 DEF Feed!Drop
<1>2. CASE Feed!Connect
  <2>1. pipe' = <<Confirmation>> \/ pipe' = pipe
    BY <1>2 DEF Feed!Connect
  <2>2. Confirmation \in sent \cup {Confirmation}
    OBVIOUS
  <2>3. <<Confirmation>> \in Seq(sent \cup {Confirmation})
    BY <2>2
  <2>4. pipe' \in Seq(sent \cup {Confirmation})
    BY <1>a, <2>1, <2>3
  <2>5. QED
    BY <1>2, <1>a, <2>4 DEF Feed!Connect
<1>3. CASE Feed!Read
  <2> DEFINE m == Head(pipe)
  <2>1. pipe # <<>> /\ pipe' = Tail(pipe) /\ sent' = sent
    BY <1>3 DEF Feed!Read
  <2>2. /\ pipe' \in Seq(sent \cup {Confirmation})
        /\ m \in sent \cup {Confirmation}
    BY <1>a, <2>1
  <2>3. \/ recent' = recent
        \/ /\ m # Confirmation /\ m.account # NoAccount
           /\ recent' = [recent EXCEPT ![m.account] = recent[m.account] \cup {m}]
    BY <1>3 DEF Feed!Read, Feed!Recorded
  <2>4. CASE m # Confirmation /\ m.account # NoAccount
             /\ recent' = [recent EXCEPT ![m.account] = recent[m.account] \cup {m}]
    <3>1. m \in sent
      BY <2>2, <2>4
    <3>2. recent' \in [Email -> SUBSET sent]
      BY <1>a, <2>4, <3>1
    <3>3. \A a \in Email : recent'[a] = recent[a] \/
                           (a = m.account /\ recent'[a] = recent[a] \cup {m})
      BY <1>a, <2>4
    <3>4. QED
      BY <1>a, <2>1, <2>2, <3>2, <3>3
  <2>5. QED
    BY <1>a, <2>1, <2>2, <2>3, <2>4
<1>4. CASE Feed!Notice
  BY <1>4, <1>a DEF Feed!Notice
<1>5. ASSUME NEW a \in Email, Feed!EventExpires(a)
      PROVE  /\ sent' = sent
             /\ pipe' \in Seq(sent \cup {Confirmation})
             /\ recent' \in [Email -> SUBSET sent]
             /\ \A b \in Email : \A m \in recent'[b] : m.account = b
  BY <1>5, <1>a DEF Feed!EventExpires
<1>6. CASE Feed!Restart
  BY <1>6, <1>a DEF Feed!Restart
<1>7. QED
  BY <1>1, <1>2, <1>3, <1>4, <1>5, <1>6 DEF Feed!FeedStep, Feed!Listen

LEMMA FeedInvStep ==
  ASSUME FeedInv, Grows, [ScenarioNext]_allVars
  PROVE  FeedInv' /\ sent \subseteq sent'
<1>a. /\ sent \subseteq {MessageOf(w) : w \in told}
      /\ pipe \in Seq(sent \cup {Confirmation})
      /\ recent \in [Email -> SUBSET sent]
      /\ \A a \in Email : \A m \in recent[a] : m.account = a
  BY DEF FeedInv
<1>b. told \subseteq told' /\ \A w : MessageOf(w)' = MessageOf(w)
  BY MessagesStay DEF Grows
<1>c. {MessageOf(w) : w \in told} \subseteq {MessageOf(w)' : w \in told'}
  BY <1>b
<1>1. CASE UNCHANGED feedVars
  BY <1>1, <1>a, <1>c DEF FeedInv, feedVars
<1>2. CASE \E w \in told' \ told : Feed!Publish(MessageOf(w))
  <2>1. PICK w \in told' : Feed!Publish(MessageOf(w))
    BY <1>2
  <2>2. CASE link = "open"
    <3>1. /\ pipe' = Append(pipe, MessageOf(w)) /\ sent' = sent \cup {MessageOf(w)}
          /\ recent' = recent
      BY <2>1, <2>2 DEF Feed!Publish
    <3>2. pipe \in Seq(sent' \cup {Confirmation}) /\ MessageOf(w) \in sent' \cup {Confirmation}
      BY <1>a, <3>1
    <3>3. pipe' \in Seq(sent' \cup {Confirmation})
      BY <3>1, <3>2
    <3>4. sent' \subseteq {MessageOf(v)' : v \in told'}
      BY <1>a, <1>b, <1>c, <3>1
    <3>5. recent' \in [Email -> SUBSET sent']
      BY <1>a, <3>1
    <3>6. QED
      BY <1>a, <3>1, <3>3, <3>4, <3>5 DEF FeedInv
  <2>3. CASE link # "open"
    <3>1. UNCHANGED feedVars
      BY <2>1, <2>3 DEF Feed!Publish, Feed!feedVars, feedVars
    <3>2. QED
      BY <1>1, <3>1
  <2>4. QED
    BY <2>2, <2>3
<1>3. CASE Feed!FeedStep \/ Feed!Restart
  <2>1. /\ sent' = sent
        /\ pipe' \in Seq(sent \cup {Confirmation})
        /\ recent' \in [Email -> SUBSET sent]
        /\ \A a \in Email : \A m \in recent'[a] : m.account = a
    BY <1>3, FeedMoves
  <2>2. QED
    BY <1>a, <1>c, <2>1 DEF FeedInv
<1>4. Gateway => \/ UNCHANGED feedVars
                 \/ \E w \in told' \ told : Feed!Publish(MessageOf(w))
  BY DEF Gateway
<1>5. GatewayRestarts \/ SetupFails \/ SetupEnds \/ Poll \/ UNCHANGED allVars => UNCHANGED feedVars
  BY DEF GatewayRestarts, SetupFails, SetupEnds, Poll, allVars
<1>6. Listener \/ PythonRestarts => Feed!FeedStep \/ Feed!Restart
  BY DEF Listener, PythonRestarts
<1>7. QED
  BY <1>1, <1>2, <1>3, <1>4, <1>5, <1>6 DEF ScenarioNext

LEMMA FirstStep ==
  ASSUME TravelInv, FirstAlone, [ScenarioNext]_allVars
  PROVE  FirstAlone'
<1>a. /\ [Next]_vars /\ TypeOK /\ Grows
      /\ Goes(first) /\ Goes(second)
      /\ first \in Attempt /\ second \in Attempt /\ first # second
  BY ScenarioSteps, LoginGoes, ScenarioAssumption DEF TravelInv, AdmissionInv
<1>b. DemoRequests'
  BY <1>a DEF FirstAlone, DemoRequests, DemoAccount, Grows, EmailOf
<1>1. pc[second] = "idle" /\ pc'[second] # "idle" => pc[first] = "pair"
  <2>1. Gateway => InTurn
    BY DEF Gateway
  <2>2. GatewayRestarts /\ pc[second] = "idle" => pc'[second] = "idle"
    BY <1>a DEF GatewayRestarts, Crash, Running
  <2>3. SetupFails \/ SetupEnds \/ Poll \/ Listener \/ PythonRestarts \/ UNCHANGED allVars
          => pc' = pc
    BY DEF SetupFails, SetupEnds, Poll, Listener, PythonRestarts, allVars, vars, loginVars
  <2>4. QED
    BY <2>1, <2>2, <2>3 DEF ScenarioNext, InTurn
<1>2. pc'[second] # "idle" => pc'[first] = "pair"
  <2>1. pc[first] = "pair" => pc'[first] = "pair"
    BY <1>a DEF Goes, Running
  <2>2. QED
    BY <1>1, <2>1 DEF FirstAlone
<1>3. pc[first] = "lookup" => users[EmailOf(first)].last = Nobody
  <2> SUFFICES ASSUME pc[first] = "lookup"
               PROVE  users[EmailOf(first)].last = Nobody
    OBVIOUS
  <2> DEFINE e == EmailOf(first)
  <2>1. e = DemoAccount /\ e \in Email /\ OrderTells(e) /\ order[e] \in Seq(Attempt)
    BY <1>a DEF FirstAlone, DemoRequests, TravelInv, TypeOK, EmailOf, Request
  <2>2. pc[second] = "idle"
    BY DEF FirstAlone
  <2>3. ~InTable(first) /\ ~InTable(second)
    BY <1>a, <2>2 DEF TravelInv, RecordedOnce, Done
  <2>4. \A i \in 1..Len(order[e]) : FALSE
    <3> SUFFICES ASSUME NEW i \in 1..Len(order[e]) PROVE FALSE
      OBVIOUS
    <3>1. order[e][i] \in Attempt /\ EmailOf(order[e][i]) = e
      BY <2>1 DEF OrderTells
    <3>2. InTable(order[e][i])
      BY <3>1 DEF InTable, Recorded
    <3>3. order[e][i] \in {first, second}
      BY <2>1, <3>1 DEF FirstAlone, DemoRequests
    <3>4. QED
      BY <2>3, <3>2, <3>3
  <2>5. order[e] = <<>>
    BY <2>1, <2>4
  <2>6. QED
    BY <2>1, <2>5 DEF OrderTells
<1>4. seen'[first] = Nobody
  BY <1>a, <1>3 DEF Goes, FirstAlone
<1>5. pc'[first] # "tellTravel"
  BY <1>a DEF Goes, FirstAlone, ImpossibleTravel
<1>6. [type |-> "impossible_travel", by |-> first] \notin told'
  BY <1>a, ToldByTelling DEF FirstAlone
<1>7. QED
  BY <1>b, <1>2, <1>4, <1>5, <1>6 DEF FirstAlone

LEMMA ReadyStep ==
  ASSUME ScenarioInv, Grows, sent \subseteq sent', [ScenarioNext]_allVars
  PROVE  ReadyMeansWarned'
<1> DEFINE w2 == [type |-> "impossible_travel", by |-> second]
<1>1. MessageOf(w2)' = MessageOf(w2)
  BY MessagesStay
<1>2. CASE stage = "ready"
  BY <1>1, <1>2 DEF ScenarioInv, ReadyMeansWarned
<1>3. CASE Poll /\ Warned
  <2>1. PICK m \in recent[DemoAccount] : TRUE
    BY <1>3 DEF Warned
  <2>2. DemoAccount \in Email /\ DemoAccount # NoAccount
    BY ScenarioAssumption
    DEF ScenarioInv, TravelInv, AdmissionInv, TypeOK, Form, DemoAccount
  <2>3. m \in sent /\ m.account = DemoAccount
    BY <2>1, <2>2 DEF ScenarioInv, FeedInv
  <2>4. PICK w \in told : m = MessageOf(w)
    BY <2>3 DEF ScenarioInv, FeedInv
  <2>5. w \in Warning
    BY DEF ScenarioInv, TravelInv, AdmissionInv, TypeOK
  <2>6. w.type = "impossible_travel" /\ EmailOf(w.by) = DemoAccount
    BY <2>2, <2>3, <2>4 DEF MessageOf
  <2>7. w.by \in {first, second}
    BY <2>5, <2>6 DEF Warning, ScenarioInv, FirstAlone, DemoRequests
  <2>8. w = [type |-> "impossible_travel", by |-> w.by]
    BY <2>5, <2>6 DEF Warning
  <2>9. w = w2
    BY <2>7, <2>8 DEF ScenarioInv, FirstAlone
  <2>10. QED
    BY <1>1, <2>3, <2>4, <2>9 DEF ReadyMeansWarned
<1>4. CASE stage # "ready" /\ ~(Poll /\ Warned)
  <2>1. stage' # "ready"
    BY <1>4 DEF ScenarioNext, Gateway, GatewayRestarts, SetupFails, SetupEnds, Poll, Listener,
                PythonRestarts, allVars, scenarioVars
  <2>2. QED
    BY <2>1 DEF ReadyMeansWarned
<1>5. QED
  BY <1>2, <1>3, <1>4

\* The takeover scenario goes on only after the warning about its own second login came
\* through Redis, for any other requests, outages of Redis, crashes of the gateway and
\* restarts of the listener.
THEOREM ReadyIsWarned == ScenarioSpec => []ReadyMeansWarned
<1>1. ScenarioInit => ScenarioInv
  <2> SUFFICES ASSUME ScenarioInit PROVE ScenarioInv
    OBVIOUS
  <2>1. Init /\ DemoRequests /\ Feed!InitFeed /\ stage = "setup"
    BY DEF ScenarioInit
  <2>2. TravelInv
    BY <2>1, InitTravel
  <2>3. FeedInv
    BY <2>1 DEF Feed!InitFeed, FeedInv
  <2>4. FirstAlone
    BY <2>1, ScenarioAssumption DEF Init, FirstAlone
  <2>5. QED
    BY <2>1, <2>2, <2>3, <2>4 DEF ScenarioInv, ReadyMeansWarned
<1>2. ScenarioInv /\ [ScenarioNext]_allVars => ScenarioInv'
  <2> SUFFICES ASSUME ScenarioInv, [ScenarioNext]_allVars PROVE ScenarioInv'
    OBVIOUS
  <2>1. [Next]_vars
    BY ScenarioSteps
  <2>2. Grows
    BY <2>1, LoginGoes DEF ScenarioInv, TravelInv, AdmissionInv
  <2>3. TravelInv'
    BY <2>1, TravelStep DEF ScenarioInv
  <2>4. FeedInv' /\ sent \subseteq sent'
    BY <2>2, FeedInvStep DEF ScenarioInv
  <2>5. FirstAlone'
    BY FirstStep DEF ScenarioInv
  <2>6. QED
    BY <2>2, <2>3, <2>4, <2>5, ReadyStep DEF ScenarioInv
<1>3. ScenarioInv => ReadyMeansWarned
  BY DEF ScenarioInv
<1>4. QED
  BY <1>1, <1>2, <1>3, PTL DEF ScenarioSpec

=============================================================================
