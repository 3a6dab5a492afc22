--------------------------- MODULE TakeoverScenario ---------------------------
(***************************************************************************)
(* The takeover scenario (agents-python/app/demo.py create_scenario): it   *)
(* registers an account at the gateway, logs in from two places, and waits *)
(* three seconds for the warning to come round through Redis. Composes     *)
(* LoginSignals and SecurityFeed: what the gateway publishes goes down the *)
(* listener's connection.                                                  *)
(***************************************************************************)
EXTENDS LoginSignals

CONSTANTS
  demo,          \* the scenario's registration
  first, second, \* and its two logins
  MaxPolls,      \* how often it looks for the warning: 60
  NoAccount, Confirmation, MaxOutages  \* of SecurityFeed

ASSUME ScenarioAssumption ==
  /\ demo \in Signup
  /\ first \in Attempt /\ second \in Attempt /\ first # second
  /\ MaxPolls \in Nat \ {0} /\ MaxOutages \in Nat
  /\ NoAccount \notin Email

VARIABLES
  stage,    \* "setup", "wait", then "ready", "gaveUp" or "failed"
  polls,
  publisher,  \* of the gateway: "redis", or "recorder" if it started while Redis was down
  link, feed, pipe, recent, sent, gone, outages

Feed == INSTANCE SecurityFeed WITH Event <- Warning, Account <- Email

scenarioVars == <<stage, polls>>
feedVars == <<link, feed, pipe, recent, sent, gone, outages>>
allVars == <<vars, scenarioVars, publisher, feedVars>>

Publishers == {"redis", "recorder"}

DemoAccount == form[demo].email

\* Only the warning about a login names the account.
MessageOf(w) ==
  [event |-> w, account |-> IF w.type = "impossible_travel" THEN EmailOf(w.by) ELSE NoAccount]

-----------------------------------------------------------------------------
(* The gateway, its client and the feed *)

\* The scenario waits for each answer before the next request.
InTurn ==
  /\ pc'[first] # pc[first] /\ pc[first] = "idle" => stage = "setup" /\ spc[demo] = "created"
  /\ pc'[second] # pc[second] /\ pc[second] = "idle" => stage = "setup" /\ pc[first] = "pair"

Gateway ==
  /\ Next
  /\ InTurn
  /\ IF told' = told \/ publisher = "recorder" THEN UNCHANGED feedVars
     ELSE \E w \in told' \ told : Feed!Publish(MessageOf(w))
  /\ UNCHANGED <<scenarioVars, publisher>>

\* A gateway that starts pings Redis once, and keeps to what it found.
GatewayRestarts ==
  /\ Crash
  /\ publisher' \in Publishers
  /\ UNCHANGED <<scenarioVars, feedVars>>

\* An answer that is an error, or does not come within fifteen seconds.
SetupFails ==
  /\ stage = "setup"
  /\ stage' = "failed"
  /\ UNCHANGED <<vars, polls, publisher, feedVars>>

SetupEnds ==
  /\ stage = "setup"
  /\ pc[second] = "pair"
  /\ stage' = "wait"
  /\ UNCHANGED <<vars, polls, publisher, feedVars>>

Warned == recent[DemoAccount] # {}

Poll ==
  /\ stage = "wait"
  /\ \/ Warned /\ stage' = "ready" /\ UNCHANGED polls
     \/ /\ ~Warned
        /\ polls' = polls + 1
        /\ stage' = IF polls' = MaxPolls THEN "gaveUp" ELSE "wait"
  /\ UNCHANGED <<vars, publisher, feedVars>>

Listener ==
  /\ Feed!FeedStep
  /\ UNCHANGED <<vars, scenarioVars, publisher>>

\* The scenario runs in the process of the listener and dies with it.
PythonRestarts ==
  /\ Feed!Restart
  /\ stage' = IF stage \in {"setup", "wait"} THEN "failed" ELSE stage
  /\ UNCHANGED <<vars, polls, publisher>>

-----------------------------------------------------------------------------

\* The email of the scenario is random: nobody else logs in with it.
DemoRequests ==
  /\ \A c \in {first, second} : /\ EmailOf(c) = DemoAccount
                                /\ req[c].password = form[demo].password
  /\ req[first].place # req[second].place
  /\ \A c \in Attempt \ {first, second} : EmailOf(c) # DemoAccount

ScenarioInit ==
  /\ Init
  /\ DemoRequests
  /\ Feed!InitFeed
  /\ stage = "setup" /\ polls = 0
  /\ publisher \in Publishers

ScenarioNext ==
  \/ Gateway \/ GatewayRestarts \/ SetupFails \/ SetupEnds \/ Poll
  \/ Listener \/ PythonRestarts

\* asyncio runs the listener's task whenever its socket has something for it.
Listening == Feed!Listen /\ UNCHANGED <<vars, scenarioVars, publisher>>

ScenarioSpec ==
  ScenarioInit /\ [][ScenarioNext]_allVars /\ WF_allVars(Listening)

-----------------------------------------------------------------------------
(* Properties *)

\* The scenario goes on only after the warning about its own second login, and only
\* when that came through Redis: a burst of failures, another account's warning or one that
\* the gateway kept to itself (main.go:80-86) does not let it pass (demo.py:113-120).
ReadyMeansWarned ==
  stage = "ready" => MessageOf([type |-> "impossible_travel", by |-> second]) \in sent

\* What SecurityFeed promises of messages and of the connection, here of the gateway's.
WarningsArrive == Feed!SentArrives
FeedComesBack == Feed!FeedRecovers
=============================================================================
