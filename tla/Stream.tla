-------------------------------- MODULE Stream --------------------------------
(***************************************************************************)
(* The live stream: the set of sockets and its broadcast                   *)
(* (ConnectionManager in agents-python/app/main.py), the handler of        *)
(* /v1/stream that takes a socket into the set and out of it, and the page *)
(* that dials again when its socket has closed (useCaseReview.ts).         *)
(*                                                                         *)
(* The handlers and the broadcasts are coroutines of one event loop: an    *)
(* action is what happens between two awaits. A broadcast iterates over    *)
(* the very set the others add to and discard from.                        *)
(***************************************************************************)
EXTENDS Integers, FiniteSets

CONSTANTS
  Page,         \* open pages
  Caller,       \* broadcasts: of the event sink, an endpoint or the listener
  MaxDials,     \* bound, per page: sockets it opens
  MaxRestarts,  \* bound: ends of the Python process
  NoSocket

\* A socket is the n-th one of its page.
Socket == UNION {{p} \X (1..MaxDials[p]) : p \in Page}

ASSUME StreamAssumption ==
  /\ MaxDials \in [Page -> Nat \ {0}]
  /\ MaxRestarts \in Nat
  /\ NoSocket \notin Socket

VARIABLES
  dials,        \* per page: sockets opened so far
  line,         \* per socket: what the server's transport will find
  unanswered,   \* sockets whose vanished client has been sent something
  handler,      \* per socket: where the coroutine stream(ws) is
  connections,  \* ConnectionManager._connections
  cast,         \* per caller: its run through broadcast
  restarts      \* bound

castVars == <<handler, connections, cast>>
streamVars == <<dials, line, unanswered, castVars, restarts>>

\* gone: the client has vanished without a close and the transport does not
\* know; shut: the transport knows.
LineState == {"none", "open", "gone", "shut"}
Handler == {"none", "accept", "receive", "end"}

\* ahead: the members the iterator still has before it; size: how many there
\* were at the start. whole (members ever since the start), tried and stirred
\* (has the set lost or gained a member meanwhile) are history.
Cast == [at : {"idle", "sending", "returned", "raised", "cut"},
         to : Socket \cup {NoSocket}, size : Nat,
         ahead : SUBSET Socket, dead : SUBSET Socket,
         whole : SUBSET Socket, tried : SUBSET Socket,
         stirred : {"no", "left", "joined"}]
Idling == [at |-> "idle", to |-> NoSocket, size |-> 0, ahead |-> {}, dead |-> {},
           whole |-> {}, tried |-> {}, stirred |-> "no"]

Active(c) == c.at = "sending"
SendingTo(s) == \E b \in Caller : Active(cast[b]) /\ cast[b].to = s

Current(p) == <<p, dials[p]>>
PageLine(p) == IF dials[p] = 0 THEN "none" ELSE line[Current(p)]

-----------------------------------------------------------------------------
(* What an iteration under way sees of its set *)

\* An entry that is taken out of the table is not met any more.
Shrunk(c, S) ==
  IF Active(c) /\ S \cap connections # {}
    THEN [c EXCEPT !.ahead = @ \ S, !.whole = @ \ S,
                   !.stirred = IF @ = "no" THEN "left" ELSE @]
  ELSE c

\* A new entry lies before or behind the iterator; when the table grows for it,
\* the entries lie anew, and any of them may be met again or never.
Grown(c, s) ==
  IF Active(c)
    THEN {[c EXCEPT !.ahead = A, !.stirred = "joined"] : A \in SUBSET (connections \cup {s})}
  ELSE {c}

\* The iterator's next, and the loop up to its next await. It checks the size of
\* the set before all else.
Turn(c, members) ==
  IF Cardinality(members) # c.size
    THEN {[Idling EXCEPT !.at = "raised", !.stirred = c.stirred]}
  ELSE IF c.ahead = {}
    THEN {[Idling EXCEPT !.at = "returned", !.stirred = c.stirred, !.dead = c.dead,
                         !.whole = c.whole \ c.tried]}
  ELSE {[c EXCEPT !.at = "sending", !.to = s, !.ahead = @ \ {s}, !.tried = @ \cup {s}] :
          s \in c.ahead}

Join(s) ==
  /\ connections' = connections \cup {s}
  /\ cast' \in [Caller -> UNION {Grown(cast[b], s) : b \in Caller}]
  /\ \A b \in Caller : cast'[b] \in Grown(cast[b], s)

Drop(S) ==
  /\ connections' = connections \ S
  /\ cast' = [b \in Caller |-> Shrunk(cast[b], S)]

-----------------------------------------------------------------------------
(* broadcast *)

\* The dead are discarded after the loop, by a broadcast that did not raise.
Go(b, c) ==
  \E d \in Turn(c, connections) :
    IF d.at = "returned"
      THEN /\ connections' = connections \ d.dead
           /\ cast' = [x \in Caller |-> IF x = b THEN [d EXCEPT !.dead = {}]
                                        ELSE Shrunk(cast[x], d.dead)]
    ELSE cast' = [cast EXCEPT ![b] = d] /\ UNCHANGED connections

Broadcast(b) ==
  /\ cast[b].at = "idle"
  /\ Go(b, [Idling EXCEPT !.size = Cardinality(connections),
                          !.ahead = connections, !.whole = connections])
  /\ UNCHANGED <<dials, line, unanswered, handler, restarts>>

\* Mutant: a failed send is tried again.
Sent_Again(b) ==
  LET c == cast[b] IN
  /\ Active(c) /\ line[c.to] \in {"open", "shut"}
  /\ IF line[c.to] = "shut" THEN UNCHANGED <<connections, cast>> ELSE Go(b, c)
  /\ UNCHANGED <<dials, line, unanswered, handler, restarts>>

\* Mutant: a dead socket is discarded where it is found.
Sent_DiscardsAtOnce(b) ==
  LET c == cast[b] IN
  /\ Active(c) /\ line[c.to] \in {"open", "shut"}
  /\ IF line[c.to] = "open" THEN Go(b, c)
     ELSE /\ connections' = connections \ {c.to}
          /\ \E d \in Turn(c, connections \ {c.to}) :
               cast' = [x \in Caller |-> IF x = b THEN d ELSE Shrunk(cast[x], {c.to})]
  /\ UNCHANGED <<dials, line, unanswered, handler, restarts>>

\* Mutant: the first dead socket ends the loop.
Sent_StopsAtDead(b) ==
  LET c == cast[b] IN
  /\ Active(c) /\ line[c.to] \in {"open", "shut"}
  /\ IF line[c.to] = "shut" THEN Go(b, [c EXCEPT !.dead = @ \cup {c.to}, !.ahead = {}])
     ELSE Go(b, c)
  /\ UNCHANGED <<dials, line, unanswered, handler, restarts>>

\* send_json to an open line returns, to one known to be shut it raises.
Sent(b) ==
  LET c == cast[b] IN
  /\ Active(c) /\ line[c.to] \in {"open", "shut"}
  /\ Go(b, IF line[c.to] = "shut" THEN [c EXCEPT !.dead = @ \cup {c.to}] ELSE c)
  /\ UNCHANGED <<dials, line, unanswered, handler, restarts>>

\* A line whose client is gone takes what still fits its buffer; otherwise the
\* send waits until the transport has given up.
SentInVain(b) ==
  /\ Active(cast[b]) /\ line[cast[b].to] = "gone"
  /\ unanswered' = unanswered \cup {cast[b].to}
  /\ Go(b, cast[b])
  /\ UNCHANGED <<dials, line, handler, restarts>>

-----------------------------------------------------------------------------
(* The handler *)

\* manager.connect: a failed accept is outside the try and leaves no trace.
Accept(s) ==
  /\ handler[s] = "accept"
  /\ IF line[s] = "shut"
       THEN handler' = [handler EXCEPT ![s] = "end"] /\ UNCHANGED <<connections, cast>>
     ELSE handler' = [handler EXCEPT ![s] = "receive"] /\ Join(s)
  /\ UNCHANGED <<dials, line, unanswered, restarts>>

\* Mutant: after the timeout the handler just waits on.
Ping_Never(s) ==
  /\ handler[s] = "receive" /\ line[s] # "shut"
  /\ UNCHANGED streamVars

\* Mutant: the timeout is an exception like any other.
Ping_Drops(s) ==
  /\ handler[s] = "receive" /\ line[s] # "shut"
  /\ handler' = [handler EXCEPT ![s] = "end"]
  /\ Drop({s})
  /\ UNCHANGED <<dials, line, unanswered, restarts>>

\* Twenty seconds without a message, for the client never sends one. A live client
\* takes the ping; to one that has vanished it is one more thing unanswered, and
\* whether the send has returned or still waits is all the same.
Ping(s) ==
  /\ handler[s] = "receive" /\ line[s] # "shut"
  /\ unanswered' = IF line[s] = "gone" THEN unanswered \cup {s} ELSE unanswered
  /\ UNCHANGED <<dials, line, castVars, restarts>>

\* receive_text or the ping raises.
Disconnect(s) ==
  /\ handler[s] = "receive" /\ line[s] = "shut"
  /\ handler' = [handler EXCEPT ![s] = "end"]
  /\ Drop({s})
  /\ UNCHANGED <<dials, line, unanswered, restarts>>

-----------------------------------------------------------------------------
(* Pages, lines and the process *)

\* The first socket of a page, and the one after a close and its delay.
Dial(p) ==
  /\ dials[p] < MaxDials[p]
  /\ PageLine(p) \in {"none", "gone", "shut"}
  /\ dials' = [dials EXCEPT ![p] = @ + 1]
  /\ line' = [line EXCEPT ![<<p, dials[p] + 1>>] = "open"]
  /\ handler' = [handler EXCEPT ![<<p, dials[p] + 1>>] = "accept"]
  /\ UNCHANGED <<unanswered, connections, cast, restarts>>

\* The page is left or its network breaks: with a close, or without one.
Lose(p) ==
  /\ dials[p] < MaxDials[p] /\ PageLine(p) = "open"
  /\ \E how \in {"gone", "shut"} : line' = [line EXCEPT ![Current(p)] = how]
  /\ UNCHANGED <<dials, unanswered, castVars, restarts>>

\* A transport gives up on what it has sent and nobody has acknowledged.
GiveUp(s) ==
  /\ line[s] = "gone"
  /\ s \in unanswered \/ SendingTo(s)
  /\ line' = [line EXCEPT ![s] = "shut"]
  /\ unanswered' = unanswered \ {s}
  /\ UNCHANGED <<dials, castVars, restarts>>

\* The process ends and starts again; pages that dial meanwhile dial again.
Restart ==
  /\ restarts < MaxRestarts
  /\ \A p \in Page : PageLine(p) = "open" => dials[p] < MaxDials[p]
  /\ restarts' = restarts + 1
  /\ line' = [s \in Socket |-> IF line[s] = "none" THEN "none" ELSE "shut"]
  /\ handler' = [s \in Socket |-> IF handler[s] = "none" THEN "none" ELSE "end"]
  /\ connections' = {} /\ unanswered' = {}
  /\ cast' = [b \in Caller |-> IF Active(cast[b]) THEN [Idling EXCEPT !.at = "cut"]
                               ELSE cast[b]]
  /\ UNCHANGED dials

-----------------------------------------------------------------------------

StreamInit ==
  /\ dials = [p \in Page |-> 0]
  /\ line = [s \in Socket |-> "none"]
  /\ unanswered = {}
  /\ handler = [s \in Socket |-> "none"]
  /\ connections = {}
  /\ cast = [b \in Caller |-> Idling]
  /\ restarts = 0

StreamNext ==
  \/ \E b \in Caller : Broadcast(b) \/ Sent(b) \/ SentInVain(b)
  \/ \E s \in Socket : Accept(s) \/ Ping(s) \/ Disconnect(s) \/ GiveUp(s)
  \/ \E p \in Page : Dial(p) \/ Lose(p)
  \/ Restart

StreamSpec == StreamInit /\ [][StreamNext]_streamVars

\* The loop runs a coroutine whose await is over, timers fire, transports give up.
\* Every one of these steps is taken finitely often, so it is enough to be fair to
\* all of them together.
StreamProgress ==
  \/ \E b \in Caller : Sent(b)
  \/ \E s \in Socket : Accept(s) \/ Ping(s) \/ Disconnect(s) \/ GiveUp(s)
  \/ \E p \in Page : Dial(p)

StreamFairSpec == StreamSpec /\ WF_streamVars(StreamProgress)

-----------------------------------------------------------------------------
(* Properties *)

StreamTypeOK ==
  /\ \A p \in Page : dials[p] \in 0..MaxDials[p]
  /\ line \in [Socket -> LineState]
  /\ unanswered \subseteq Socket
  /\ handler \in [Socket -> Handler]
  /\ connections \subseteq Socket
  /\ cast \in [Caller -> Cast]
  /\ restarts \in 0..MaxRestarts

\* A broadcast raises only because somebody else took a socket into the set or out
\* of it while it was waiting for a send: clients that are merely dead, however
\* many, never break it (main.py:52-60).
RaisesForCause ==
  \A b \in Caller : cast[b].at = "raised" => cast[b].stirred # "no"

\* A broadcast that returns has been sent to every socket that was in the set all
\* the while, unless one left and another joined meanwhile, so that the size was
\* the same again and the table another (main.py:54).
ReturnedReachesAll ==
  \A b \in Caller :
    cast[b].at = "returned" /\ cast[b].stirred # "joined" => cast[b].whole \subseteq cast[b].tried

\* "Pinging on an idle timeout turns a passive wait ... into an active liveness
\* check, so ConnectionManager can't accumulate stale entries" (main.py:204): a
\* socket whose client has vanished leaves the set, though nothing be broadcast and
\* though the broadcast that found it dead raise.
StaleLeave ==
  \A s \in Socket : line[s] \in {"gone", "shut"} ~> s \notin connections

\* A page that has lost its socket, through whatever break or restart, is in the set
\* again with an open one; and no broadcast or timeout throws out a live one.
PageComesBack ==
  \A p \in Page : []<>(PageLine(p) = "open" /\ Current(p) \in connections)

\* Every broadcast ends, whoever vanishes during it: the coroutine that awaits it, a
\* case or an endpoint, goes on.
BroadcastEnds ==
  \A b \in Caller : Active(cast[b]) ~> ~Active(cast[b])
=============================================================================
