# VaultWatch in TLA+

TLA+ models of VaultWatch, the TLC configurations that check them on small
instances, and TLAPS proofs of theorems about them. Paths are relative to the
repository unless they name a file of this directory.

## 1. The system

VaultWatch reviews synthetic payments. A transaction goes through risk rules, an
anomaly prefilter and up to three agents; a payment policy then allows, holds or
blocks a simulated execution; the record is kept in an audit log and a case
table. Login anomalies of a separate gateway can raise the severity of an alert.

| Part | State it keeps | Operations | What makes it hard |
|---|---|---|---|
| Case pipeline (`agents-python/app/orchestrator.py`) | `PipelineResult` of each running case; recent security events | `process_transaction`, `record_security_event` | a dozen awaits on three services, several cases at once, early returns that all have to finish the case |
| Payment control (`payments.py`) | `result.payment`, `result.audit` | `payment_policy`, `apply_payment_control` | three calls that can fail one by one around one decision |
| Endpoints and live feed (`main.py`) | set of WebSockets, feed status | run, demo, batch, stream, broadcast | iteration over a set across awaits, answers after a save |
| Case store (`db.py`) | table `cases`, or a bounded deque | save, recent, get | no transaction with the audit log |
| Audit client and log (`audit.py`, `engine-rust/src/audit.rs`) | entries in memory, JSON lines on disk | append, verify, open, recent | write, newline and sync fail separately; crashes; late requests |
| Risk rules (`engine-rust/src/rules.rs`, `models.rs`) | none | score | bands, caps, floating-point features |
| Prefilter, agents, replay transcripts (`prefilter.py`, `llm/*`) | none | score, run | verdicts that are not under the program's control |
| Token rotation (`gateway-go/internal/service/auth_service.go`, `store/*`) | table `refresh_tokens` | Refresh, issueTokenPair | four SQL statements without a transaction |
| Registration, login, anomaly signals (`auth_service.go`, `anomaly/*`) | table `users`, failure windows | Register, Login | check-then-act on the last login; sliding windows |
| Rate limiter (`ratelimit/tokenbucket.go`) | buckets | Allow | refill arithmetic |
| Security feed (`events/events.go`, Redis, `main.py`) | none that survives | publish, subscribe | no replay, reconnects, events without an account |
| Dashboard (`dashboard-web/src/lib/useCaseReview.ts`, `hooks/useLiveFeed.ts`) | case list, selection, feed | refresh, run, batch | answers out of order |
| Public showcase (`dashboard-web/src/lib/audit.ts`, `orchestrator.ts`) | audit chain and history of an instance | run, append, verify | await between reading the last entry and pushing the next |

They interact by HTTP (Python to Rust: score, append, verify; browser to Python),
Redis Pub/Sub (Go to Python), WebSocket (Python to the browser) and SQL. The audit
log and the case table share no transaction (`docs/architecture.md`, "Failure
boundaries").

What each part has to guarantee:

* pipeline and payment control: a payment is executed only on a complete,
  verified record that ends in its policy receipt; audit failures make the gate
  stricter and never weaker; the trail says what the case says; every case ends;
* audit log: a valid verification means that every receipt handed out is on disk
  as it was handed out; no false alarm without a fault;
* rotation: a token is spent before its successor exists; a replayed token gets
  nothing; a session is revoked for cause, and then as a whole;
* feed and login: a warning reaches the recent events of its account, or its connection was lost;
* live stream: merely dead clients never break a broadcast, stale sockets leave, pages come back;
* limits: no more grants than burst and refill; a burst of failures fires once;
* dashboard and showcase: the list a run waits for holds its cases, and the page ends up with what is
  saved; a chain that nobody forked verifies.

The hazards behind these, each at the line where it bites, are in `PROJECT.json`.

## 2. Modules

| Module | Models | Proofs |
|---|---|---|
| `CasePipeline` | pipeline, payment control, save and answer | `CasePipelineProofs` |
| `PaymentGate` | what payment control promises, in two variables | `CasePipelineProofs` |
| `AuditLog` | the Rust log and its file | `RecordedPaymentProofs` |
| `RecordedPayment` | the end of a case over the log; composes `AuditLog` with its clients | `RecordedPaymentProofs` |
| `RefreshRotation` | refresh tokens over PostgreSQL | `RefreshRotationProofs` |
| `Limits` | token bucket and failure window, with a clock | `LimitsProofs` |
| `LoginSignals` | Register, Login and the warnings they publish, over PostgreSQL | `TakeoverScenarioProofs` |
| `SecurityFeed` | Redis Pub/Sub, the listener, recent events of an account | `TakeoverScenarioProofs` |
| `TakeoverScenario` | the demo scenario; composes `LoginSignals` and `SecurityFeed` | `TakeoverScenarioProofs` |
| `Stream` | the set of WebSockets, its broadcast, the stream handler, pages that dial again | `DashboardProofs` |
| `Showcase` | the TypeScript pipeline, its chain and case list, the page | `ShowcaseProofs` |
| `CaseReview` | the review page, its requests at the server and its refreshes | `DashboardProofs` |
| `Assessment` | rule points, prefilter, replay and live agents, policy, with numbers; the showcase's port of them | `AssessmentProofs` |
| `MC...` | instances for TLC | |

Operators named `X_Bug` with a "Mutant" comment are wrong variants of `X`; putting
one in the place of `X` makes the property it belongs to fail, which shows that the
property can fail. No specification uses them. The type invariants of `LoginSignals` and `CaseReview`
are checked and proved, the others only proved (section 4).

### CasePipeline

asyncio runs one coroutine at a time, so everything between two awaits is one
action, and `pc[t]` names the await that transaction `t` is suspended at: the append
of a receipt (`record`), the broadcast after it (`cast`), the rule engine, one of
the agents, the two verifications, the policy append, the save and the final
broadcast. `kind[t]` is the receipt being written; what follows it (`AfterRules`,
`AfterPrefilter`, ..., `AfterLastEvent`) is the code after that `emit`. `result`,
`audit` and `payment` are the fields of `PipelineResult`.

The Rust side appears as each transaction's receipts in chain order (`chain`), the
requests Python gave up on but Rust may still carry out (`late`), and what a
verification of the whole chain would answer (`chainValid`, which may change at any
time). An append either returns its receipt or raises; when it raises, the request
is dead or late. A crash of the Python process ends all running cases at once, and
their appends under way may still land. `AuditLog` is the detailed model of what is
behind `chain` and `chainValid`.

Verdicts are chosen nondeterministically: the score from `RuleScores`, the case file
from `CaseFiles`, prefilter and triage freely. Any await that can raise may raise
(`CanRaise`): the rule engine, an agent without a verdict (among them the
investigator that used up its turns), a broadcast, the INSERT, the last broadcast.
The loop that generates synthetic transactions saves without the last broadcast; a
case of that loop ends where `Notify` is a step without effect.

Abstracted: texts, times (the ten minutes are `EventExpires`), the content of tool
calls, and everything of the transaction but its account. The pipeline without an
audit client (`audit is None`) exists only in tests and is not modelled.

### PaymentGate

Two variables: the policy receipt of a case on the chain and the outcome of its
payment. `Agree` says which pairs may be seen together. `CasePipeline!Gate`
instantiates it with the receipt found on `chain` and the action decided, and
`ImplementsGate` (checked by TLC, and proved) says that every behaviour of the pipeline is one
of the gate.

### AuditLog

One append runs at a time under a mutex that `verify` takes too, so the log is
sequential inside; what interleaves is the operating system. `writeln!` on an
unbuffered `File` issues two writes, then comes `sync_data`: `WriteRecord`,
`WriteNewline`, `Sync`, each with its failing counterpart. `file` is what a reader
would find, line by line: an entry, text that is no JSON (`torn`) or bytes that are
no UTF-8 (`mangled`, possible because payloads may hold non-ASCII text and a
write can stop anywhere). Text written after a missing newline joins the last line.
`durable` is how much of it survives a loss of power. `Open` is the code of `open()`:
it stops silently at bytes that are no UTF-8 (`map_while(Result::ok)`) and fails at
text that is no JSON, in which case the process exits: the model has no step for a start
that fails, since the next one finds the same file.

A hash stands for everything it covers: the contents and numbers of all entries up
to its own, so two hashes are equal only if those are. Timestamps are part of the
request. Abstracted: blank lines, deletion of the file, serialisation errors; a
successful sync makes the whole file durable. A process that dies between the two
writes of a line counts as a fault, like the failed writes; one that dies elsewhere
outside the write itself does not.

### RecordedPayment

`CasePipeline` takes the log for a chain that anything may happen to; here the end of a case
runs over the log itself. `case[t]` is a transaction in `finish` and `apply_payment_control`: the append of
`case.completed`, the verification, the policy with an allow only if that made the case verified,
the policy's append, the second verification and the decision. Each answer is used some time after it was given
(`answered`), any call may raise, and a request that Python gave up on may still be received (`late`).
The receipts before `case.completed` are the same append over again: a case that lost one comes
with an error (`RecordInit`). The requests outside `OfPayment` are other cases' and come at any time.

`RecordIsKept` is what the payment control promises of the disk. An append is acknowledged even if its text joined
a line of broken bytes that a crash left and `open` stopped at, so a receipt does not
mean a record: it takes the verification after it, and a payment that went by its receipt alone
breaks the property (the mutant `PolicyRecorded_Trusted`).

### RefreshRotation

Each request runs in a goroutine, each store call is one SQL statement outside any
transaction. `pc[c]` is the statement request `c` is about to issue. `rows` is the
table, `MarkUsed`, `Save` and `RevokeFamily` are its statements as in
`store/postgres.go` (the store of the running service; the in-memory store has the
same steps under a mutex). A store call can fail, and its statement may then still be
carried out later (`late`); a crash of the gateway does that to every request under
way. Tokens are random and never drawn twice. Expiry is a set that only grows. The
response may be lost on its way to the client. A login appears as the row it ends
with. The event published after a replay changes nothing here.

### Limits

`Allow`, `RecordFailure` and `Reset` run under the mutex of their map, so each is one
action, and `Tick` moves the clock, which never goes back. A bucket holds grains:
with 0.5 tokens per second (`main.go:95`) and seconds for units of time, a token is two
grains and the refill one. The floating-point sums of the code are thereby exact here;
their rounding is abstracted. `grants` and `failures` are histories the
properties compare the counters with. No module composes `Limits`: `LoginSignals`
starts behind the limiter, and takes the failure window as a count whose entries may
expire at any time (`FailureExpires`), of which `Limits` shows the exact meaning.

### LoginSignals

A request is a goroutine, and `pc[c]` (`spc[s]` for a registration) is what it does
next: a store call, the critical section of one failure tracker, a publication. Store
calls fail, and their statements may be carried out later (`late`) or after the crash
of the gateway, as in `RefreshRotation`. The last login in the table is the request
that recorded it. The time between that record and a login's comparison is
a choice made at the comparison (`gap`): backward or none, short, or so long that any place can be
reached. No clock is assumed: the earlier time comes back from PostgreSQL without a monotonic
reading, so it may be ahead, and then no travel is impossible (`travel.go:48`). Checking the password and the distance belong to the step
before them. What follows a recorded login (its token pair) is `Issue` here and
detailed in `RefreshRotation`. The in-memory store, which overwrites where PostgreSQL
refuses, is not the store of the running service and is not modelled.

### SecurityFeed and TakeoverScenario

Pub/Sub keeps nothing: `Publish` appends to the connection if one is open. `Drop`
breaks it, losing any part of what was under way; `Notice` and `Connect` are the
listener's outer loop, `Read` one turn of the inner one. A client library that reopens
a connection by itself is `Notice` followed by `Connect`. A broken connection is assumed to be
noticed when everything received before has been read. Messages are sets and
sequences of events, so a message repeated by a retry of the publisher is not told
apart.

`TakeoverScenario` runs `create_scenario`: registration, two logins in turn, and the
loop that looks for the warning (`Poll`), beside strangers at the same gateway. Each
warning that `LoginSignals` tells goes through `Feed!Publish` in the same step, or nowhere: a
gateway pings Redis once, when it starts, and one that did not reach it gives its warnings to a
recorder in memory until it is started again (`publisher`, chosen by `ScenarioInit` and
`GatewayRestarts`).

### Stream

Handlers and broadcasts are coroutines of one event loop; an action is what happens between
two awaits. A socket is the n-th of its page; `line[s]` is what its transport knows: open, gone (the
client has vanished without a close and nobody has noticed) or shut. `handler[s]` is where
`stream(ws)` stands, `connections` the set.

A broadcast iterates over that set while others change it, and the model keeps what CPython
does then: the iterator compares the size of the set with the size at its start before every step
(`Turn`), an entry taken out ahead of it is not met any more (`Shrunk`), and after an insertion,
which may lay the table out anew, any entry may be met again or never (`Grown`). `ahead` is what the iterator
still has before it; `whole`, `tried` and `stirred` are histories for the properties. The caller that
a broadcast raises into is `CasePipeline` (`Cast`, `Notify`) and `CaseReview` (`Notify`, `Progress`), which let it
raise at any time; `RaisesForCause` says when it does.

A send to an open line is taken at once: that a client is slow and still there is left out, since
its send ends as well. A vanished client's line takes what its buffer holds (`SentInVain`) or lets the send wait; its transport
gives up only on something sent and unacknowledged (`GiveUp`), which is why the ping matters. `Dial` is
a page's first socket and each one after a close and its delay; a page that vanished may dial before the
server has noticed. A browser is assumed to notice each of its
breaks in the end. A page leaves or loses its network only while it has dials left, so that the
bound never is what keeps it away. `Restart` ends the process with all its sockets.

### Showcase

The event loop of one serverless instance; an action is what happens between two
awaits. `pending[r]` is the entry that run `r` has prepared from the end of the chain and
whose digest it awaits; the step after the await pushes it, whatever the chain has become.
A hash stands for all it covers, as in `AuditLog`. `ColdStart` forgets the
memory and loses the requests at the server. After its answer a run goes on in the
page: the list, then the verification, each of which may fail. The verification awaits
digests too; it is one step at its end, which is exact because entries never change
and it goes on to those pushed meanwhile. Rules, prefilter and agents are choices.
The feed items of the page and several instances at once are left out.

### CaseReview

A job is one request to `/v1/demo/run`, `/v1/demo/batch` or `/v1/pipeline/run`: `Work`
stands for everything `CasePipeline` models before the save, and each later step may
fail as the code lets it: the INSERT, the broadcast of `case_saved` (which raises after the
case is saved) and the broadcast of `batch_progress` (which nothing catches, so that the
whole batch answers an error); when a broadcast raises is said by `Stream`. The store is chosen at the start (`storage`): the
table, or, without a `DATABASE_URL`, a bounded deque whose saves cannot fail, which forgets its
oldest cases (`kept`) and, with the process, all of them. The page runs one request at a
time (`busy`), but one whose answer was lost goes on at the server beside the next.
`refresh[r]` is the list that refresh `r` has read and not shown yet; `Poll` is every
reason for a refresh but the end of a run: the interval, the button, a socket that opens and
a `case_saved` message. Left out is an INSERT that answers an error and is committed all the same: such a
case is listed by the next poll like any other, after the page has counted it as unconfirmed.
Since a poll may come at any time, the socket has no state of its own. Status panels, event feed and progress counter are left out.

### Assessment

One transaction from the rules to the payment decision, with the arithmetic that
`CasePipeline` leaves open and without the receipts that `CasePipeline` is about. `x` is
the transaction with its scoring context and with what the tools would answer of it;
`Init` draws it from `DemoInput` (`create_scenario`) and `SyntheticInput`
(`generate_demo_transaction`), and `side` says whether Python and Rust or their
TypeScript port handle it. `Checks` is stage 0 with the first early return; `Triage`,
`Research`, `Emit` and `Comply` are the agents' calls; `Alert` the fusion; `Decide` the
policy and the enforcement boundary, where `verified` and `recorded` stand for what
`CasePipeline` says of the audit.

The two providers are one choice, `live`. Replay is deterministic and without memory: it
counts the assistant turns of the conversation (`turns`) and collects the tool results found there
(`consulted`), and `ScriptedCall` and `ScriptedCase` are its scripts. A live model answers anything:
any verdict, any set of calls per turn, any case of `LiveCase`, or something that makes the
agent raise. A live case is any score and any number of links; `Accepted` is what becomes of it: Python validates it
(`models.py:67`) and raises, the showcase casts it (`agents.ts:122`) and goes on with what it got. `raised` is the end of such a case, as in `CasePipeline` and `Showcase`.

Abstracted: amounts are integers; standard deviations are counted in whole ones of a quarter of the
average; the distance of two cities is a speed, since the last location is an hour
old; the verdict of the isolation forest is a choice. The showcase's score is exact, times 200. Replay's
quiet script (`QuietCase`) is there and never reached: what its triage escalates it
also suspects.

## 3. Runs

| Run | Module, config | Question | Instance |
|---|---|---|---|
| `pipeline` | `MCCasePipeline.cfg` | all properties of a case, the refinement of the gate, and termination | one transaction, 3 scores, 3 case files, 1 tool call, 1 audit fault |
| `auditlog` | `MCRecordedPayment.cfg` | what a verification promises, what an executed payment has on the disk, and when a restart gets by | the two appends of a payment and one of another case, 2 faults |
| `auditlog_refused` | `MCAuditLogRefused.cfg` | is a refused append really absent | expected violation |
| `refresh` | `MCRefreshRotation.cfg` | what rotation guarantees under overlap and failure | three requests, two sessions, four tokens, 1 fault |
| `refresh_burning` | `MCRefreshRotationBurning.cfg` | does burning a family log everybody out | expected violation |
| `limits` | `MCLimits.cfg` | grants, refusals and bursts | one key, burst 2, half a token per unit, window 3, threshold 2, clock to 8 |
| `login` | `MCLoginSignals.cfg` | which warnings are published whatever interleaves | three logins and a registration of one account from one address, two places, 1 fault |
| `takeover` | `MCTakeoverScenario.cfg` | does a warning reach Python, and only the right one let the scenario pass | the scenario, a rival registration, a failing login, 1 outage, 2 polls, a gateway with or without Redis |
| `review` | `MCCaseReview.cfg` | is what the page shows saved, and does it find all that is | a run or a batch of two beside another client's case, two refreshes, a list of two, a table or a deque of two, 1 fault |
| `stream` | `MCStream.cfg` | when a broadcast raises, whom it reaches, and do sockets, pages and broadcasts settle | a page with two sockets and one with one, two broadcasts, 1 restart |
| `showcase` | `MCShowcase.cfg` | what the chain, its verification and the list say under overlap | two runs, a list of one, 1 cold start |
| `assessment` | `MCAssessment.cfg` | what verdicts rest on, what agents can release, and how the scenarios end | five scenarios and two kinds of synthetic payments, two averages, two speeds, 16 live case files (some out of range), six turns |

Bounds, and why they are enough. The scores 24, 25 and 80 lie on both sides of the
escalation threshold and in the critical band; the case files lie on both sides of
every threshold of the severity (39 and 70; 70 is also above the fusion threshold of
50), with and without a watchlist hit. One audit fault (`MaxFaults`) reaches every
`except` branch, and crashes come on top of it without a bound; a second fault only
repeats the branch of an error already counted, and the proofs have no bound. One
tool event takes both branches of the loop. With one transaction the
interleavings with late appends, crashes and security events are all there; another case
touches the first only through the chain, its verification and the crash, which may
each change at any time. That cases which interleave do not vouch for each other is shown by the
proofs alone (`Completeness`, `ExecutionNeedsRecord`), for any number of them. In `auditlog` three appends and two faults let one line be
acknowledged, one be broken and one be written after it; `auditlog_refused` has three interchangeable appends. Three refreshes are a
rotation, a rival and a later replay; two sessions let one be burned and the other
not. In `limits` the clock runs for more than twice the window and long enough to
fill an empty bucket; keys share nothing, so one is enough, and the proofs have no
bound. Three logins of one account are one that was recorded, one that reads it and
one that comes between, each with any of the three outcomes of the clock; everything shares one account and address because only
what is shared interleaves. The thresholds there (2 and 3) are reached by those
three. One outage is a lost connection, a failed connect or a restart, each at any point; the
scenario's choices of email and password are fixed to those that bring a conflict and
a warning without account. In `review` the page's cases and another client's are one
more than the list holds, and one refresh of a run and one of the interval can overtake each
other both ways. In `stream` three sockets are one that leaves, one that joins and one that stays, which is what it
takes for a broadcast to find the size of its set as it was over another table; two broadcasts
let one discard what the other iterates over. Two overlapping runs fork the showcase chain, and a list of one makes every
run push another out. In `assessment` the amounts are an ordinary one and both sides of the 1000 of a new
recipient, beside the default of 4200 and the multiples of an average, which lie on both sides of
5000; the averages lie inside and outside the demo accounts' range; the speeds are Dublin to London (no travel rule) and to
Sydney; the live scores lie on both sides of 50 and 70, and beyond 100. Six turns are `MAX_TURNS`. `CHECK_DEADLOCK FALSE` throughout: every model stops when its finite set of
transactions or requests is used up.

Symmetry is used where only invariants and action properties are checked.

Fairness. `CasePipeline!FairSpec` is weakly fair to the steps of each running
transaction: every await of the pipeline has a limit (HTTP timeouts of 5 and 10
seconds, the model client's own timeout, six investigator turns) or ends by itself, and the
event loop runs a coroutine whose await is over. Nothing is assumed of the
environment. `ScenarioSpec` is weakly fair to
the listener's steps together (`Listening`): asyncio runs its task whenever the socket
has something for it or its pause is over. The number of outages is bounded; Redis
and the gateway owe nothing. `RecordedPayment!RecordFairSpec` is weakly fair to `Open`: the container is started again whenever its
process has ended (`compose.local.yml:5`, `restart: unless-stopped`). `Stream!StreamFairSpec` is
weakly fair to `StreamProgress`, the steps of the event loop, the transports' and the pages' dials, taken together, which is enough because
each is taken finitely often: coroutines whose await is over are run, the ping's timeout fires, a transport
gives up on what nobody acknowledges, and a page's timer dials. Nobody has to broadcast, so sockets
leave by the ping alone. `BroadcastEnds` in turn is what `CasePipeline` assumes of its
broadcasts. `CaseReview!Fairness` lets requests at the server and answers end
(the limits above, and 2 seconds for the checks behind the status) and the page's interval
fire; failed reads are bounded.

### Where the code and its documentation disagree

* `auditlog_refused`: a test and the HTTP answer say that an append that failed is
  not in the chain; when only the newline or the sync failed, the next start adopts it.
* `refresh_burning`: burning the family is said to force re-authentication
  everywhere; a rotation whose insert comes after the `UPDATE` escapes it.

Seen while modelling, with no run of their own:

* After a torn line `open` fails at every restart, so the log stays down, though "local restart
  policies recover exited containers" (`docs/architecture.md:47`, `docs/local-development.md:60`). It takes no crash: a
  refused newline leaves text that the next append joins. `RestartRecovers` says that this is the only case.
* Two showcase runs at once link to the same predecessor (`dashboard-web/src/lib/audit.ts:44`), and
  the page says TAMPERED (`ShowcaseDashboard.tsx:81`) though nobody changed an entry.
  `ValidExactlyInOrder` and the theorem `NumberShared` say that this is the only way it comes about.
* When file and memory differ in length, `AuditLog::verify` reports the shorter length plus one
  without walking the chain (`audit.rs:137`), so an edited entry before that number goes unreported.
* Two logins that overlap both compare themselves with the login recorded before them, so
  neither travel between the two is reported (`TravelTold` speaks of logins that began after
  the other was recorded).
* A wall clock that is set back behind the last login hides impossible travel from it (`travel.go:48-50`), as
  `anomaly_test.go:35-45` wants; `TravelTold` speaks of positive times.
* A live model's case file is not validated in the showcase, so the page may show a score beyond 100.
* `demo_run` answers 503 "no case was reported as complete" for whatever raised, also when only the last broadcast raised and the
  case is saved (`main.py:262-275`); the page lists it with its next refresh.
* A broadcast that raises has reached some of its sockets and not others, and no message is sent again. A page that comes
  back asks for the list, and for the agent events it missed there is nothing to ask.
* batch_progress messages carry a batch_id that the page does not compare (`useCaseReview.ts:160`): two pages
  that run batches show each other's progress.
* Without a `DATABASE_URL` the gateway's `MemoryStore.CreateUser` overwrites a user that was created since
  `Register` looked, where PostgreSQL refuses (`RegistrationStands` is about PostgreSQL).

The TypeScript port differs from what it is a port of (`dashboard-web/src/lib/llm/transcripts.ts:1`):
its case files start from 70 points and always recommend compliance, where Python starts from
40 for moderate evidence and may recommend nothing; and it counts the payment itself as
what was spent in the last hour (`synthetic.ts:122`, `synthetic.py:132`), so the threshold of 5000 is
passed by half the amount. And a payment to a listed recipient that no rule and no
anomaly flags (a small amount, a city nearby) is executed, since the watchlist is asked only by the investigator;
`docs/architecture.md:13` has a watchlist hit block it, which it does once there is one.

## 4. Theorems

The proofs hold for every set of transactions, accounts, scores, case files, appends,
requests, sessions and tokens and every bound on faults. They assume only the named
assumptions of the modules (constants of the right kind, markers outside the sets they mark).

`CasePipelineProofs`: `TypeCorrect`, `Completeness`, `ExecutionNeedsRecord`,
`GateOnlyTightens`, `ExecutionSeesValidChain` (the last one, that an executed payment saw
the chain verify after its receipt, is proved and not in a run). The invariant `IInv` ties together,
for each transaction, its place in the pipeline, the verdicts known there, and
the receipts asked for: `Ledger` (each receipt asked for is on the chain, late or
counted as an error), `Honest` (a verified status means no errors), `Position` (the
receipts asked for are those of the path taken, which is what an executed payment
is judged by) and `Decision`. None of the properties is inductive alone: that a
verified case is complete depends on every failed append having been counted when it
failed, long before the status is written.

`GateRefinement` is the refinement of `PaymentGate`. A receipt is found again on the chain by its position
among those asked for, so the invariant says where each may be (`Traced`: on the chain, late or nowhere, and
never twice), and that the policy's is the last one asked for. With that every step of the pipeline is a
record, a settlement or a discard of the gate, or changes nothing it sees (`Writes`, `Settles`,
`Discards`); a crash settles nothing.

`TrailTold` says that the trail of a case that ended is the one its verdicts call for. `Tale` spells out,
for each await, the trail up to there and what the verdicts can be by then; `Story` is the tale of a case at
its own place, after some number of tool events, which is all that is not fixed.

`RecordedPaymentProofs`, the log by itself: `LogTypes`, `ReceiptsAreDurable`, `HealthyIsValid`. The invariant
says that every receipt has a line of its own among the durable ones that carries its hash or has
become unreadable, that the durable part is closed by a newline so nothing written
later can join it, and that the entry under way is the last line. A valid
verification then finds each receipt's hash at a line whose hash is right, and equal
hashes are equal entries, under equal numbers. That there is no false alarm takes the converse (`Clean`): as long as
nothing has failed, the lines are one chain, the memory holds the same entries but for the one under way,
and every receipt is the line of its number.

The log under its clients: `PaymentsAreRecorded` (and `ReceiptsStayDurable`, the theorem above under these
clients). A valid verification finds every receipt handed out so far at a durable line of its own number
(`ValidIsFirm`), and no step of the log moves a durable line or changes its hash (`DurableStays`,
`FirmStays`). `Waiting` says which receipts a case had when it asked; that is why an old answer is as good as
a fresh one.

`RefreshRotationProofs`: `RotationTypes`, `RotationSpends`, `ReplayRefused`,
`BurnedForGood`, `RevokedForCause`. `RotationInv` says of each request what it knows at its
place (`Placed`), of each abandoned statement that it belongs to one finished
request (`Orphan`), of a burned family that nothing of it is under way (`Ash`), and of
every spent or revoked token who caused it (`Causes`). `Monotone`, `Entering` and
`Moving` summarise all steps once; the conjuncts follow from those summaries.

`TakeoverScenarioProofs`, about `LoginSignals`: `LoginTypes`, `TravelIsTold`, `RegistrationsStand`, `BurstsAreTold`,
`WarningsAreCaused`. An accepted password is the account's and stays so (`Admitted`), since a registration
never overwrites. For travel, a login is followed through the order in which the table recorded them
(`OrderTells`): it saw the login recorded last when it looked, whoever had been recorded when it arrived is that
one or an earlier one, and it comes later itself (`Saw`). Between two logins recorded one after the other there
is no third, so the second saw the first. For bursts, what a failing request does not tell is known
at each of its steps. `WarningsAreCaused` bounds each counter by the requests that failed so far
(`Counts`), which needs that only finitely many have arrived (`Busy`), in a set of requests that may be infinite.

About the scenario: `ScenarioIsLogins` and `ReadyIsWarned`. Every behaviour of the scenario is one of
`LoginSignals`, so the theorems above hold in it. What the listener holds was published and is filed under
its own account (`FeedInv`), and the first of the scenario's two logins can have caused no travel warning
(`FirstAlone`); hence the warning that ends the wait was caused by the second.

`DashboardProofs`, about `CaseReview`: `ReviewTypes`, `ShownWasSaved`, `OwnCaseIsListed`. A request saves its cases in turn and each once
(`SavedInTurn`), it counts only what it has saved (`CountsSaved`), and each list on its way holds saved
cases. `OwnCaseListed` speaks of the moment a run's list is shown; the invariant says what that
list owes the run from the moment it was read (`Owes`): each of its cases is listed, or was forgotten by the
bounded store, or the list is full of cases saved later (`CrowdedOut`).

About `Stream`: `StreamTypes`, `RaisesOnlyForCause`, `ReturnedReached`. For a broadcast that waits,
the set has the size it started with unless it was stirred, and the members that were there
all the while are tried or still ahead unless one joined (`CastInv`). `Turn`, `Shrunk` and
`Grown` each keep this for one broadcast; a broadcast that ends discards its dead under all the others.

`LimitsProofs`: `BucketSafe` (which contains what `TypeOK` says of the buckets), `LimitsTypes`, `LimiterHolds`, `LimiterIsFair`, `BurstsReported`. The bucket is
described by the grants alone: the grains in it are the least allowance over all
stretches of time that end now (`BucketInv`). From that, what was spent never exceeds any
allowance, and an empty bucket means that some allowance is spent. The failure window is described by the
failures alone: it is their list without a first part that lies outside the window before the newest
(`WindowOf`, `Trimmed`), which holds because the clock never goes back and the list is in order. `Recent` is the loop of the code as a
recursive function; that such a function exists is proved by the least number of turns it would
not get through (`LoopRuns`).

`ShowcaseProofs`: `ShowcaseTypes`, `ValidInOrder`, `NumberShared`, `AnsweredRunsRecorded`, `OwnRunIsListed`. `ChainInv` says that
every entry, pushed or pending, was prepared from some earlier end of this chain
(`Fits`), that an unbroken chain counts its entries and its hashes grow by one each
(`Counting`), and that a broken chain has a first broken entry (`HasFirst`, which would
be an induction, and is carried along the pushes instead). The first broken entry was
prepared from an earlier place, whose entry bears the same number. For the receipts, `Told` says at each
await how many entries of the run the chain has and where; for the list, it is the newest runs
finished (`Newest`), and the one a run fetched is that of some moment after its own end.
`NumberShared` has no run of its own.

`AssessmentProofs`: `AssessmentTypes`, `EvidenceBeforeVerdict`, `AgentsOnlyWithhold`, `ScenariosAsDocumented`. The first
says that every score keeps its range but a live model's in the showcase: nothing is assumed of what a model gives. The
invariant adds to the three properties what stage 0 left behind (`Met`: a case that has met no agent has
no case file; one that has was not clear), that an execution comes last and was clear (`Paid`), and
what a replay has consulted after so many turns (`Replayed`), without which
nothing says that the case file comes fourth. For the scenarios a replay is followed to its payment
(`Reached`): each await has the rules' score, the triage, the case file and the severity that the input alone
decides, and only the arithmetic of a demo input is left, for every average an account may have.

With that every invariant and every step property of the passing runs has a theorem.
Only model-checked: liveness (`EveryCaseEnds`, `RestartRecovers`, `FeedComesBack`, `WarningsArrive`,
`ListSettles`, `StaleLeave`, `PageComesBack`, `BroadcastEnds`), which is out of TLAPS's reach under
fairness. The two expected violations (section 3) are counterexamples and have nothing to prove.

## 5. Plan

Done: 1. `CasePipeline` with `PaymentGate`; 2. `AuditLog`; 3. `RefreshRotation`;
4. `Limits`; 5. `LoginSignals`, `SecurityFeed` and `TakeoverScenario`; 6. `Showcase`;
7. `CaseReview` with both case stores; 8. `Assessment`; 9. `Stream`; 10. the liveness of
`AuditLog` and `SecurityFeed`, and the gateway without Redis; 11. `RecordedPayment`;
12. proofs of all invariants and step properties of the runs, and of the refinement of the gate.

Next: a type invariant of `SecurityFeed` and its theorem, and what the refinements between the
components would be, beginning with `AuditLog` under the chain that `CasePipeline` assumes.

## 6. Not modelled, and why

Isolation forest, distances and standard deviations: floating-point arithmetic, whose
results are inputs of the models. Password hashing and JWT: pure cryptographic
calls. Synthetic data, reports, views and the 3D scene: generation and layout without
state. Scripts and container files: start-up and probes; the restart policy is the
one line of them the models use. The in-memory stores of the gateway: its refresh tokens take the
same steps under a mutex as the statements in `RefreshRotation`, its users differ in what is said above. Slow
clients that still read, the event feed and the progress counter of the page, its status
panels, and several showcase instances at once: no property is about them. Bearer tokens and the limiter before the
gateway's handlers: both answer before any state is touched.
