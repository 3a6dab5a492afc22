----------------------------- MODULE LoginSignals -----------------------------
(***************************************************************************)
(* Registration and login at the gateway, and the warnings they publish    *)
(* (gateway-go/internal/service/auth_service.go Register, Login and        *)
(* recordFailure, over the PostgreSQL users table).                        *)
(*                                                                         *)
(* Each request is a goroutine: it interleaves with the others between two *)
(* store calls, two critical sections of a failure tracker and the calls   *)
(* to Redis. Checking a password and comparing two places touch nothing    *)
(* that is shared and belong to the step before them.                      *)
(***************************************************************************)
EXTENDS Integers, Sequences, FiniteSets

CONSTANTS
  Attempt,           \* login requests that the rate limiter let through
  Signup,            \* registration requests
  Email, Ip,
  Place,             \* places so far apart that only a long pause explains both
  Password,
  Nobody,            \* no login yet
  NoPassword,        \* of an email that is not registered
  IpThreshold,       \* failures within the window that make a burst
  AccountThreshold,
  MaxFaults          \* bound: calls to PostgreSQL and Redis that fail

ASSUME LoginAssumption ==
  /\ Nobody \notin Attempt /\ NoPassword \notin Password
  /\ IpThreshold \in Nat \ {0} /\ AccountThreshold \in Nat \ {0}
  /\ MaxFaults \in Nat

VARIABLES
  users,      \* the table users; a last login is the request that recorded it
  byIp,       \* failures within the window, per address
  byAccount,  \* failures within the window, per email
  pc,         \* what each login does next
  req,        \* what it asks for
  seen,       \* the last login in the row it read
  gap,        \* from there to its own comparison, by the gateway's clock
  form,       \* what each registration asks for
  spc,        \* what it does next
  told,       \* warnings that Redis took
  unheard,    \* warnings whose publication failed: the error is dropped
  late,       \* statements nobody waits for that may still be carried out
  order,      \* history, per email: logins in the order they were recorded
  before,     \* history: the logins recorded when each login arrived
  faults      \* bound

loginVars == <<pc, req, seen, gap, before>>
signupVars == <<form, spc>>
tableVars == <<users, order>>
failureVars == <<byIp, byAccount>>
warningVars == <<told, unheard>>
vars == <<loginVars, signupVars, tableVars, failureVars, warningVars, late, faults>>

User == [password : Password \cup {NoPassword}, last : Attempt \cup {Nobody}]
Request == [email : Email, ip : Ip, place : Place, password : Password]
Form == [email : Email, password : Password]

\* The elapsed time: none at all or less, too short for two places, or long enough. The
\* recorded time comes out of PostgreSQL without its monotonic reading, so a wall clock
\* that was set back in between leaves it in the future.
Gap == {"backward", "short", "long"}

Pc == {"idle", "lookup", "countIp", "tellIp", "countAccount", "tellAccount",
       "resetIp", "resetAccount", "tellTravel", "record", "issue",
       "refused", "error", "pair", "lost"}
SignupPc == {"idle", "check", "create", "created", "taken", "lost"}

Warning == [type : {"impossible_travel", "brute_force_ip", "brute_force_account"},
            by : Attempt]
Statement == [op : {"record"}, by : Attempt] \cup [op : {"create"}, by : Signup]

Registered(e) == users[e].password # NoPassword
Recorded(e) == {order[e][i] : i \in 1..Len(order[e])}
EmailOf(c) == req[c].email

Goto(c, p) == pc' = [pc EXCEPT ![c] = p]

\* A call to PostgreSQL or Redis fails.
Fault == faults < MaxFaults /\ faults' = faults + 1

-----------------------------------------------------------------------------
(* Statements and publication *)

\* Mutant: only the first login of an account is recorded.
RecordLogin_FirstOnly(c) ==
  /\ users' = IF users[EmailOf(c)].last # Nobody THEN users
              ELSE [users EXCEPT ![EmailOf(c)].last = c]
  /\ order' = [order EXCEPT ![EmailOf(c)] = Append(@, c)]

RecordLogin(c) ==
  /\ users' = [users EXCEPT ![EmailOf(c)].last = c]
  /\ order' = [order EXCEPT ![EmailOf(c)] = Append(@, c)]

\* Mutant: the insert replaces the row it conflicts with, as MemoryStore does.
Create_Overwrites(s) ==
  /\ users' = [users EXCEPT ![form[s].email] =
                 [password |-> form[s].password, last |-> Nobody]]
  /\ UNCHANGED order

\* INSERT under UNIQUE (email): fails without effect when there is a row.
Create(s) ==
  /\ users' = IF Registered(form[s].email) THEN users
              ELSE [users EXCEPT ![form[s].email] =
                      [password |-> form[s].password, last |-> Nobody]]
  /\ UNCHANGED order

CarryOut(t) ==
  \/ t.op = "record" /\ RecordLogin(t.by)
  \/ t.op = "create" /\ Create(t.by)

\* What may still reach the database from requests that are gone.
Abandoned(C, S) ==
  {[op |-> "record", by |-> c] : c \in {d \in C : pc[d] = "record"}}
    \cup {[op |-> "create", by |-> s] : s \in {r \in S : spc[r] = "create"}}

\* PUBLISH: what fails may have arrived, and nobody looks at the error.
Publish(w) ==
  \/ told' = told \cup {w} /\ UNCHANGED <<unheard, faults>>
  \/ Fault /\ unheard' = unheard \cup {w} /\ told' \in {told, told \cup {w}}

-----------------------------------------------------------------------------
(* Register *)

SignUp(s) ==
  /\ spc[s] = "idle"
  /\ spc' = [spc EXCEPT ![s] = "check"]
  /\ UNCHANGED <<form, loginVars, tableVars, failureVars, warningVars, late, faults>>

\* A read that fails says as much as a row that is missing.
CheckEmail(s) ==
  /\ spc[s] = "check"
  /\ \/ /\ spc' = [spc EXCEPT ![s] = IF Registered(form[s].email) THEN "taken" ELSE "create"]
        /\ UNCHANGED faults
     \/ Fault /\ spc' = [spc EXCEPT ![s] = "create"]
  /\ UNCHANGED <<form, loginVars, tableVars, failureVars, warningVars, late>>

CreateUser(s) ==
  /\ spc[s] = "create"
  /\ spc' = [spc EXCEPT ![s] = IF Registered(form[s].email) THEN "taken" ELSE "created"]
  /\ Create(s)
  /\ UNCHANGED <<form, loginVars, failureVars, warningVars, late, faults>>

\* Any error is answered 409, whatever became of the statement.
CreateFails(s) ==
  /\ spc[s] = "create"
  /\ Fault
  /\ spc' = [spc EXCEPT ![s] = "taken"]
  /\ late' \in {late, late \cup Abandoned({}, {s})}
  /\ UNCHANGED <<form, loginVars, tableVars, failureVars, warningVars>>

-----------------------------------------------------------------------------
(* Login *)

Arrive(c) ==
  /\ pc[c] = "idle"
  /\ before' = [before EXCEPT ![c] = Recorded(EmailOf(c))]
  /\ Goto(c, "lookup")
  /\ UNCHANGED <<req, seen, gap, signupVars, tableVars, failureVars, warningVars, late, faults>>

\* GetUserByEmail and VerifyPassword; an error of the store counts as a failed login.
Lookup(c) ==
  /\ pc[c] = "lookup"
  /\ \/ /\ users[EmailOf(c)].password = req[c].password
        /\ seen' = [seen EXCEPT ![c] = users[EmailOf(c)].last]
        /\ Goto(c, "resetIp")
        /\ UNCHANGED faults
     \/ /\ users[EmailOf(c)].password # req[c].password
        /\ Goto(c, "countIp")
        /\ UNCHANGED <<seen, faults>>
     \/ Fault /\ Goto(c, "countIp") /\ UNCHANGED seen
  /\ UNCHANGED <<req, gap, before, signupVars, tableVars, failureVars, warningVars, late>>

\* Mutant: one failure less is a burst.
Burst_Early(n, threshold) == n >= threshold - 1

\* Mutant: the failure that reaches the threshold is not reported.
Burst_Late(n, threshold) == n > threshold

Burst(n, threshold) == n >= threshold

\* RecordFailure of the address, then of the account, each under its mutex.
CountIp(c) ==
  LET k == req[c].ip IN
  /\ pc[c] = "countIp"
  /\ byIp' = [byIp EXCEPT ![k] = @ + 1]
  /\ Goto(c, IF Burst(byIp'[k], IpThreshold) THEN "tellIp" ELSE "countAccount")
  /\ UNCHANGED <<req, seen, gap, before, signupVars, tableVars, byAccount, warningVars, late, faults>>

TellIp(c) ==
  /\ pc[c] = "tellIp"
  /\ Publish([type |-> "brute_force_ip", by |-> c])
  /\ Goto(c, "countAccount")
  /\ UNCHANGED <<req, seen, gap, before, signupVars, tableVars, failureVars, late>>

\* Mutant: a failure is counted but not refused.
CountAccount_GoesOn(c) ==
  LET k == EmailOf(c) IN
  /\ pc[c] = "countAccount"
  /\ byAccount' = [byAccount EXCEPT ![k] = @ + 1]
  /\ Goto(c, IF Burst(byAccount'[k], AccountThreshold) THEN "tellAccount" ELSE "resetIp")
  /\ UNCHANGED <<req, seen, gap, before, signupVars, tableVars, byIp, warningVars, late, faults>>

CountAccount(c) ==
  LET k == EmailOf(c) IN
  /\ pc[c] = "countAccount"
  /\ byAccount' = [byAccount EXCEPT ![k] = @ + 1]
  /\ Goto(c, IF Burst(byAccount'[k], AccountThreshold) THEN "tellAccount" ELSE "refused")
  /\ UNCHANGED <<req, seen, gap, before, signupVars, tableVars, byIp, warningVars, late, faults>>

TellAccount(c) ==
  /\ pc[c] = "tellAccount"
  /\ Publish([type |-> "brute_force_account", by |-> c])
  /\ Goto(c, "refused")
  /\ UNCHANGED <<req, seen, gap, before, signupVars, tableVars, failureVars, late>>

ResetIp(c) ==
  /\ pc[c] = "resetIp"
  /\ byIp' = [byIp EXCEPT ![req[c].ip] = 0]
  /\ Goto(c, "resetAccount")
  /\ UNCHANGED <<req, seen, gap, before, signupVars, tableVars, byAccount, warningVars, late, faults>>

\* CheckImpossibleTravel, of the row that was read: no speed comes of a time that is
\* zero or negative.
ImpossibleTravel(c, elapsed) ==
  /\ seen[c] # Nobody
  /\ req[seen[c]].place # req[c].place
  /\ elapsed = "short"

\* The clock may stand anywhere at the comparison, whatever it read before.
ResetAccount(c) ==
  /\ pc[c] = "resetAccount"
  /\ byAccount' = [byAccount EXCEPT ![EmailOf(c)] = 0]
  /\ \E elapsed \in Gap :
       /\ gap' = [gap EXCEPT ![c] = elapsed]
       /\ Goto(c, IF ImpossibleTravel(c, elapsed) THEN "tellTravel" ELSE "record")
  /\ UNCHANGED <<req, seen, before, signupVars, tableVars, byIp, warningVars, late, faults>>

TellTravel(c) ==
  /\ pc[c] = "tellTravel"
  /\ Publish([type |-> "impossible_travel", by |-> c])
  /\ Goto(c, "record")
  /\ UNCHANGED <<req, seen, gap, before, signupVars, tableVars, failureVars, late>>

UpdateLastLogin(c) ==
  /\ pc[c] = "record"
  /\ RecordLogin(c)
  /\ Goto(c, "issue")
  /\ UNCHANGED <<req, seen, gap, before, signupVars, failureVars, warningVars, late, faults>>

\* issueTokenPair; what becomes of the token is RefreshRotation's subject.
Issue(c) ==
  /\ pc[c] = "issue"
  /\ Goto(c, "pair")
  /\ UNCHANGED <<req, seen, gap, before, signupVars, tableVars, failureVars, warningVars,
                 late, faults>>

LoginFails(c) ==
  /\ pc[c] \in {"record", "issue"}
  /\ Fault
  /\ Goto(c, "error")
  /\ late' \in {late, late \cup Abandoned({c}, {})}
  /\ UNCHANGED <<req, seen, gap, before, signupVars, tableVars, failureVars, warningVars>>

-----------------------------------------------------------------------------
(* Around the service *)

Running(c) == pc[c] \notin {"idle", "refused", "error", "pair", "lost"}
Registering(s) == spc[s] \in {"check", "create"}

\* The gateway dies: the table survives, the trackers do not.
Crash ==
  /\ \/ \E c \in Attempt : Running(c)
     \/ \E s \in Signup : Registering(s)
  /\ pc' = [c \in Attempt |-> IF Running(c) THEN "lost" ELSE pc[c]]
  /\ spc' = [s \in Signup |-> IF Registering(s) THEN "lost" ELSE spc[s]]
  /\ byIp' = [k \in Ip |-> 0]
  /\ byAccount' = [k \in Email |-> 0]
  /\ \E S \in SUBSET Abandoned(Attempt, Signup) : late' = late \cup S
  /\ UNCHANGED <<req, seen, gap, before, form, tableVars, warningVars, faults>>

CarryOutLate ==
  \E t \in late :
    /\ CarryOut(t)
    /\ late' = late \ {t}
    /\ UNCHANGED <<loginVars, signupVars, failureVars, warningVars, faults>>

\* A failure leaves its window: it is no longer counted (module Limits).
FailureExpires ==
  /\ \/ \E k \in Ip : byIp[k] > 0 /\ byIp' = [byIp EXCEPT ![k] = @ - 1] /\ UNCHANGED byAccount
     \/ \E k \in Email : /\ byAccount[k] > 0
                         /\ byAccount' = [byAccount EXCEPT ![k] = @ - 1]
                         /\ UNCHANGED byIp
  /\ UNCHANGED <<loginVars, signupVars, tableVars, warningVars, late, faults>>

-----------------------------------------------------------------------------

Init ==
  /\ users = [e \in Email |-> [password |-> NoPassword, last |-> Nobody]]
  /\ byIp = [k \in Ip |-> 0] /\ byAccount = [k \in Email |-> 0]
  /\ pc = [c \in Attempt |-> "idle"]
  /\ req \in [Attempt -> Request]
  /\ seen = [c \in Attempt |-> Nobody]
  /\ gap = [c \in Attempt |-> "none"]
  /\ form \in [Signup -> Form]
  /\ spc = [s \in Signup |-> "idle"]
  /\ told = {} /\ unheard = {} /\ late = {}
  /\ order = [e \in Email |-> <<>>]
  /\ before = [c \in Attempt |-> {}]
  /\ faults = 0

Next ==
  \/ \E s \in Signup : SignUp(s) \/ CheckEmail(s) \/ CreateUser(s) \/ CreateFails(s)
  \/ \E c \in Attempt :
       \/ Arrive(c) \/ Lookup(c)
       \/ CountIp(c) \/ TellIp(c) \/ CountAccount(c) \/ TellAccount(c)
       \/ ResetIp(c) \/ ResetAccount(c) \/ TellTravel(c)
       \/ UpdateLastLogin(c) \/ Issue(c) \/ LoginFails(c)
  \/ Crash \/ CarryOutLate \/ FailureExpires

Spec == Init /\ [][Next]_vars

-----------------------------------------------------------------------------
(* Properties *)

\* Every variable has its type, and only a registered email has a last login.
TypeOK ==
  /\ users \in [Email -> User]
  /\ byIp \in [Ip -> Nat] /\ byAccount \in [Email -> Nat]
  /\ pc \in [Attempt -> Pc] /\ req \in [Attempt -> Request]
  /\ seen \in [Attempt -> Attempt \cup {Nobody}]
  /\ gap \in [Attempt -> Gap \cup {"none"}]
  /\ form \in [Signup -> Form] /\ spc \in [Signup -> SignupPc]
  /\ told \subseteq Warning /\ unheard \subseteq Warning
  /\ late \subseteq Statement
  /\ order \in [Email -> Seq(Attempt)]
  /\ before \in [Attempt -> SUBSET Attempt]
  /\ faults \in 0..MaxFaults
  /\ \A e \in Email : users[e].last # Nobody => Registered(e)

\* A registration that was confirmed stands: whoever registers the same email at
\* the same time, fails or retries, its password is the one that logs in
\* (auth_service.go:70-79; the check and the insert are two statements).
RegistrationStands ==
  \A s \in Signup :
    spc[s] = "created" => users[form[s].email].password = form[s].password

Told(type, c) == [type |-> type, by |-> c] \in told \cup unheard

\* Login d was recorded right after login c, of the same account.
Consecutive(c, d) ==
  \E e \in Email : \E i \in 1..(Len(order[e]) - 1) : order[e][i] = c /\ order[e][i + 1] = d

TooFast(c, d) == req[c].place # req[d].place /\ gap[d] = "short"

\* Whoever logs in after the last login was recorded, too far away and, by the gateway's
\* clock, too soon after it, is reported, or Redis failed: other requests, failures,
\* crashes and statements carried out late do not hide it (auth_service.go:100-117). A
\* clock set back behind the record does (travel.go:48-50, anomaly_test.go:35-45), and
\* logins that overlap both compare with the one recorded before either of them.
TravelTold ==
  \A c, d \in Attempt :
    Consecutive(c, d) /\ TooFast(c, d) /\ c \in before[d] => Told("impossible_travel", d)

\* A count that stands at its threshold has been reported, or is about to be by
\* the request that reached it: no interleaving of failures, successes and expiring
\* windows carries a key past its threshold in silence (auth_service.go:126-141).
BurstTold ==
  /\ \A k \in Ip : byIp[k] >= IpThreshold =>
       \E c \in Attempt : req[c].ip = k /\ (pc[c] = "tellIp" \/ Told("brute_force_ip", c))
  /\ \A k \in Email : byAccount[k] >= AccountThreshold =>
       \E c \in Attempt : EmailOf(c) = k /\ (pc[c] = "tellAccount" \/ Told("brute_force_account", c))

\* Requests that were counted as failures.
Failed(c) == pc[c] \in {"tellIp", "countAccount", "tellAccount", "refused", "lost"}

\* No warning without its cause: a login warned of has the account's password and an
\* earlier login elsewhere, and a burst has as many failures as its threshold says.
WarningsHaveCause ==
  \A w \in told :
    /\ w.type = "impossible_travel" =>
         \E c \in Attempt : /\ c # w.by /\ c \in Recorded(EmailOf(w.by))
                            /\ req[c].place # req[w.by].place
                            /\ users[EmailOf(w.by)].password = req[w.by].password
    /\ w.type = "brute_force_ip" =>
         Cardinality({c \in Attempt : Failed(c) /\ req[c].ip = req[w.by].ip}) >= IpThreshold
    /\ w.type = "brute_force_account" =>
         Cardinality({c \in Attempt : Failed(c) /\ EmailOf(c) = EmailOf(w.by)})
           >= AccountThreshold
=============================================================================
