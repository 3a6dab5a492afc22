----------------------------- MODULE SecurityFeed -----------------------------
(***************************************************************************)
(* The way of a warning from Redis to the pipeline: the channel            *)
(* security.events, the listener of the Python service                     *)
(* (agents-python/app/main.py _security_event_listener) and the recent     *)
(* events of each account (agents-python/app/orchestrator.py).             *)
(*                                                                         *)
(* Pub/Sub keeps nothing: a message goes to the connections subscribed     *)
(* when it is published. What the server has sent down a connection waits  *)
(* in pipe until the listener reads it.                                    *)
(***************************************************************************)
EXTENDS Integers, Sequences

CONSTANTS
  Event,
  Account,
  NoAccount,    \* of an event without account_id, and no Account
  Confirmation, \* no Message: Redis confirms a subscription in the stream of the messages
  MaxOutages    \* bound: lost connections, failed ones and restarts

Message == [event : Event, account : Account \cup {NoAccount}]

VARIABLES
  link,     \* the connection: "closed", "open", or "broken" and not noticed yet
  feed,     \* state["security_feed"]
  pipe,     \* messages sent down the connection and not read
  recent,   \* per account: events recorded within the last ten minutes
  sent,     \* history: messages published to an open connection
  gone,     \* history: those a broken connection, a restart or time took away
  outages   \* bound

feedVars == <<link, feed, pipe, recent, sent, gone, outages>>

Outage == outages < MaxOutages /\ outages' = outages + 1

-----------------------------------------------------------------------------
(* Redis *)

Publish(m) ==
  IF link = "open"
  THEN pipe' = Append(pipe, m) /\ sent' = sent \cup {m} /\ UNCHANGED <<link, feed, recent, gone, outages>>
  ELSE UNCHANGED feedVars

\* The server or the network goes away; what was received before can still be read.
Drop ==
  /\ link = "open"
  /\ Outage
  /\ link' = "broken"
  /\ \E n \in 0..Len(pipe) :
       /\ pipe' = SubSeq(pipe, 1, n)
       /\ gone' = gone \cup {m \in sent : \E i \in (n + 1)..Len(pipe) : pipe[i] = m}
  /\ UNCHANGED <<feed, recent, sent>>

-----------------------------------------------------------------------------
(* The listener *)

\* The head of the outer loop, up to SUBSCRIBE.
Connect ==
  /\ link = "closed"
  /\ feed' = "reconnecting"
  /\ \/ link' = "open" /\ pipe' = <<Confirmation>> /\ UNCHANGED outages
     \/ Outage /\ UNCHANGED <<link, pipe>>
  /\ UNCHANGED <<recent, sent, gone>>

\* Mutant: the list of an account without events is not stored.
Recorded_KnownAccounts(a, m) == IF recent[a] = {} THEN {} ELSE recent[a] \cup {m}

\* record_security_event keeps what is not older than the window; time is EventExpires.
Recorded(a, m) == recent[a] \cup {m}

\* Mutant: the confirmation is skipped like every other control message.
Read_SkipsControl ==
  /\ link # "closed" /\ pipe # <<>>
  /\ pipe' = Tail(pipe)
  /\ IF Head(pipe) = Confirmation
     THEN UNCHANGED <<feed, recent>>
     ELSE LET m == Head(pipe) IN
          /\ recent' = IF m.account = NoAccount THEN recent
                       ELSE [recent EXCEPT ![m.account] = Recorded(m.account, m)]
          /\ UNCHANGED feed
  /\ UNCHANGED <<link, sent, gone, outages>>

\* Mutant: an event without account is kept for every account.
Read_ForEveryone ==
  /\ link # "closed" /\ pipe # <<>>
  /\ pipe' = Tail(pipe)
  /\ IF Head(pipe) = Confirmation
     THEN feed' = "online" /\ UNCHANGED recent
     ELSE LET m == Head(pipe) IN
          /\ recent' = [a \in Account |->
                          IF m.account \in {a, NoAccount} THEN Recorded(a, m) ELSE recent[a]]
          /\ UNCHANGED feed
  /\ UNCHANGED <<link, sent, gone, outages>>

\* One message of listen(); an exception of the broadcast after it is caught.
Read ==
  /\ link # "closed" /\ pipe # <<>>
  /\ pipe' = Tail(pipe)
  /\ IF Head(pipe) = Confirmation
     THEN feed' = "online" /\ UNCHANGED recent
     ELSE LET m == Head(pipe) IN
          /\ recent' = IF m.account = NoAccount THEN recent
                       ELSE [recent EXCEPT ![m.account] = Recorded(m.account, m)]
          /\ UNCHANGED feed
  /\ UNCHANGED <<link, sent, gone, outages>>

\* Reading on from a broken connection raises; the loop starts again.
Notice ==
  /\ link = "broken" /\ pipe = <<>>
  /\ link' = "closed"
  /\ feed' = "reconnecting"
  /\ UNCHANGED <<pipe, recent, sent, gone, outages>>

EventExpires(a) ==
  /\ \E m \in recent[a] :
       /\ recent' = [recent EXCEPT ![a] = @ \ {m}]
       /\ gone' = gone \cup {m}
  /\ UNCHANGED <<link, feed, pipe, sent, outages>>

\* The Python process ends and is started again.
Restart ==
  /\ Outage
  /\ link' = "closed" /\ feed' = "reconnecting" /\ pipe' = <<>>
  /\ recent' = [a \in Account |-> {}]
  /\ gone' = sent
  /\ UNCHANGED sent

-----------------------------------------------------------------------------

InitFeed ==
  /\ link = "closed" /\ feed = "reconnecting" /\ pipe = <<>>
  /\ recent = [a \in Account |-> {}]
  /\ sent = {} /\ gone = {} /\ outages = 0

Listen == Connect \/ Read \/ Notice
FeedStep == Drop \/ Listen \/ \E a \in Account : EventExpires(a)

-----------------------------------------------------------------------------
(* Properties *)

\* Every event with an account that was published to an open connection is recorded
\* for that account in the end, unless a broken connection, a restart or the ten
\* minutes took it: nothing the listener does loses it or keeps it waiting for ever
\* (main.py:131-156, orchestrator.py:107-114).
SentArrives ==
  <>[](\A m \in sent : m.account # NoAccount => m \in recent[m.account] \cup gone)

\* "A Redis restart must not silently disable correlation until Python restarts"
\* (main.py:132): while outages end, the feed is online again and the connection
\* behind it open.
FeedRecovers == <>[](feed = "online" /\ link = "open")
=============================================================================
