--------------------------- MODULE RefreshRotation ---------------------------
(***************************************************************************)
(* Rotation of refresh tokens (gateway-go/internal/service/auth_service.go *)
(* Refresh and issueTokenPair, over the PostgreSQL refresh_tokens table).  *)
(*                                                                         *)
(* Each HTTP request runs in its own goroutine and each store call is one  *)
(* SQL statement of its own: Refresh holds no transaction, so requests     *)
(* interleave between its statements. A statement whose call fails, or     *)
(* whose process dies, may still be carried out by the database, later.    *)
(***************************************************************************)
EXTENDS Integers, FiniteSets

CONSTANTS
  Call,      \* refresh requests; a client's retry is another request
  Family,    \* sessions: one per login
  Token,     \* random tokens, and equally their hashes
  NoFamily,
  NoToken,   \* no token, or a string that is not one
  MaxFaults  \* bound: store calls that fail

ASSUME RotationAssumption ==
  /\ NoFamily \notin Family
  /\ NoToken \notin Token
  /\ MaxFaults \in Nat

VARIABLES
  rows,     \* the table refresh_tokens; NoFamily where there is no row
  expired,  \* tokens whose expires_at has passed
  held,     \* tokens that reached a client
  pc,       \* the store call each request is about to make
  token,    \* the token it presented
  fresh,    \* the token it generated
  answer,   \* what it was answered
  late,     \* statements nobody waits for that may still be carried out
  from,     \* history: the token each token replaced
  stale,    \* history: requests whose token was spent when they arrived
  burned,   \* history: families revoked while no rotation of theirs was under way
  faults    \* bound

callVars == <<pc, token, fresh, answer, stale>>
tableVars == <<rows, from, burned>>
vars == <<callVars, tableVars, expired, held, late, faults>>

Row == [family : Family \cup {NoFamily}, used : BOOLEAN, revoked : BOOLEAN]
NoRow == [family |-> NoFamily, used |-> FALSE, revoked |-> FALSE]

Pc == {"idle", "get", "mark", "user", "save", "revoke", "done"}
Answer == {"none", "pair", "reuse", "invalid", "error", "lost"}

Issued(t) == rows[t].family # NoFamily
FamilyOf(c) == rows[token[c]].family

\* A statement that changes the table: the presented token, and the new one.
Statement == [op : {"mark", "save", "revoke"}, at : Token,
              new : Token \cup {NoToken}]
StatementOf(c) == [op |-> pc[c], at |-> token[c], new |-> fresh[c]]

\* A token no call has drawn before: 32 random bytes.
Unused(t) ==
  /\ ~Issued(t)
  /\ \A c \in Call : fresh[c] # t

\* A request that has read a token of the family as good, or its insert.
Rotating(f) ==
  \/ \E c \in Call : pc[c] \in {"mark", "user", "save"} /\ FamilyOf(c) = f
  \/ \E s \in late : s.op = "save" /\ rows[s.at].family = f

-----------------------------------------------------------------------------
(* The statements *)

MarkUsed(t) ==
  /\ rows' = [rows EXCEPT ![t].used = TRUE]
  /\ UNCHANGED <<from, burned>>

Save(parent, t) ==
  /\ rows' = [rows EXCEPT ![t] = [family |-> rows[parent].family,
                                  used |-> FALSE, revoked |-> FALSE]]
  /\ from' = [from EXCEPT ![t] = parent]
  /\ UNCHANGED burned

\* Mutant: every session is revoked, not only the family.
RevokeFamily_Everyone(f) ==
  /\ rows' = [t \in Token |-> [rows[t] EXCEPT !.revoked = @ \/ Issued(t)]]
  /\ burned' = IF Rotating(f) THEN burned ELSE burned \cup {f}
  /\ UNCHANGED from

RevokeFamily(f) ==
  /\ rows' = [t \in Token |->
                IF rows[t].family = f THEN [rows[t] EXCEPT !.revoked = TRUE]
                ELSE rows[t]]
  /\ burned' = IF Rotating(f) THEN burned ELSE burned \cup {f}
  /\ UNCHANGED from

CarryOut(s) ==
  \/ s.op = "mark" /\ MarkUsed(s.at)
  \/ s.op = "save" /\ Save(s.at, s.new)
  \/ s.op = "revoke" /\ RevokeFamily(rows[s.at].family)

-----------------------------------------------------------------------------
(* Login's issueTokenPair, and Refresh *)

Goto(c, p) == pc' = [pc EXCEPT ![c] = p] /\ UNCHANGED answer

Reply(c, a) ==
  /\ pc' = [pc EXCEPT ![c] = "done"]
  /\ answer' = [answer EXCEPT ![c] = a]

\* A login ends with the first token of a family of its own.
Login(f, t) ==
  /\ \A u \in Token : rows[u].family # f
  /\ Unused(t)
  /\ rows' = [rows EXCEPT ![t] = [family |-> f, used |-> FALSE, revoked |-> FALSE]]
  /\ held' = held \cup {t}
  /\ UNCHANGED <<callVars, from, burned, expired, late, faults>>

\* A client presents a token it was given, newest or not, or some other string.
Present(c, t) ==
  /\ pc[c] = "idle"
  /\ t \in held \cup {NoToken}
  /\ token' = [token EXCEPT ![c] = t]
  /\ stale' = IF t # NoToken /\ rows[t].used THEN stale \cup {c} ELSE stale
  /\ Goto(c, "get")
  /\ UNCHANGED <<fresh, tableVars, expired, held, late, faults>>

\* Mutant: a token that was rotated away is only refused once revoked.
Replayed_RevokedOnly(t) == rows[t].revoked

\* Mutant: only the use of a token is looked at.
Replayed_UsedOnly(t) == rows[t].used

Replayed(t) == rows[t].revoked \/ rows[t].used

Get(c) ==
  /\ pc[c] = "get"
  /\ \/ token[c] = NoToken /\ Reply(c, "invalid")
     \/ token[c] # NoToken /\ Replayed(token[c]) /\ Goto(c, "revoke")
     \/ /\ token[c] # NoToken /\ ~Replayed(token[c])
        /\ IF token[c] \in expired THEN Reply(c, "invalid") ELSE Goto(c, "mark")
  /\ UNCHANGED <<token, fresh, stale, tableVars, expired, held, late, faults>>

Mark(c) ==
  /\ pc[c] = "mark"
  /\ CarryOut(StatementOf(c))
  /\ Goto(c, "user")
  /\ UNCHANGED <<token, fresh, stale, expired, held, late, faults>>

\* GetUserByID answers and issueTokenPair draws the new token.
Mint(c, t) ==
  /\ pc[c] = "user"
  /\ Unused(t)
  /\ fresh' = [fresh EXCEPT ![c] = t]
  /\ Goto(c, "save")
  /\ UNCHANGED <<token, stale, tableVars, expired, held, late, faults>>

\* The insert returns; the new pair may still be lost on its way to the client.
Issue(c) ==
  /\ pc[c] = "save"
  /\ CarryOut(StatementOf(c))
  /\ Reply(c, "pair")
  /\ held' \in {held, held \cup {fresh[c]}}
  /\ UNCHANGED <<token, fresh, stale, expired, late, faults>>

Revoke(c) ==
  /\ pc[c] = "revoke"
  /\ CarryOut(StatementOf(c))
  /\ Reply(c, "reuse")
  /\ UNCHANGED <<token, fresh, stale, expired, held, late, faults>>

\* What the caller of a failed store call does: a failed read of the token is
\* answered as an invalid one, a failed revocation is ignored.
AnswerToFailure(p) ==
  CASE p = "get" -> "invalid" [] p = "revoke" -> "reuse" [] OTHER -> "error"

Abandoned(C) == {StatementOf(c) : c \in {d \in C : pc[d] \in {"mark", "save", "revoke"}}}

\* Mutant: the error of MarkUsed is ignored, as RevokeFamily's is.
Fail_MarkIgnored(c) ==
  /\ pc[c] \in {"get", "mark", "user", "save", "revoke"}
  /\ faults < MaxFaults
  /\ faults' = faults + 1
  /\ late' \in {late, late \cup Abandoned({c})}
  /\ IF pc[c] = "mark" THEN Goto(c, "user") ELSE Reply(c, AnswerToFailure(pc[c]))
  /\ UNCHANGED <<token, fresh, stale, tableVars, expired, held>>

Fail(c) ==
  /\ pc[c] \in {"get", "mark", "user", "save", "revoke"}
  /\ faults < MaxFaults
  /\ faults' = faults + 1
  /\ late' \in {late, late \cup Abandoned({c})}
  /\ Reply(c, AnswerToFailure(pc[c]))
  /\ UNCHANGED <<token, fresh, stale, tableVars, expired, held>>

-----------------------------------------------------------------------------
(* Around the service *)

Running(c) == pc[c] \notin {"idle", "done"}

\* The gateway dies; the table survives, and so may what was sent to it.
Crash ==
  /\ \E c \in Call : Running(c)
  /\ pc' = [c \in Call |-> IF Running(c) THEN "done" ELSE pc[c]]
  /\ answer' = [c \in Call |-> IF Running(c) THEN "lost" ELSE answer[c]]
  /\ \E S \in SUBSET Abandoned(Call) : late' = late \cup S
  /\ UNCHANGED <<token, fresh, stale, tableVars, expired, held, faults>>

CarryOutLate ==
  \E s \in late :
    /\ CarryOut(s)
    /\ late' = late \ {s}
    /\ UNCHANGED <<callVars, expired, held, faults>>

Expire(t) ==
  /\ Issued(t)
  /\ expired' = expired \cup {t}
  /\ UNCHANGED <<callVars, tableVars, held, late, faults>>

-----------------------------------------------------------------------------

Init ==
  /\ rows = [t \in Token |-> NoRow]
  /\ expired = {} /\ held = {}
  /\ pc = [c \in Call |-> "idle"]
  /\ token = [c \in Call |-> NoToken]
  /\ fresh = [c \in Call |-> NoToken]
  /\ answer = [c \in Call |-> "none"]
  /\ late = {}
  /\ from = [t \in Token |-> NoToken]
  /\ stale = {} /\ burned = {}
  /\ faults = 0

Next ==
  \/ \E f \in Family, t \in Token : Login(f, t)
  \/ \E c \in Call :
       \/ \E t \in Token \cup {NoToken} : Present(c, t)
       \/ Get(c) \/ Mark(c) \/ (\E t \in Token : Mint(c, t))
       \/ Issue(c) \/ Revoke(c) \/ Fail(c)
  \/ Crash \/ CarryOutLate
  \/ \E t \in Token : Expire(t)

Spec == Init /\ [][Next]_vars

-----------------------------------------------------------------------------
(* Properties *)

\* Every variable stays in the values its part of the program can hold, and
\* whoever presents a token presents one that is in the table.
TypeOK ==
  /\ rows \in [Token -> Row]
  /\ expired \subseteq Token /\ held \subseteq Token
  /\ pc \in [Call -> Pc]
  /\ token \in [Call -> Token \cup {NoToken}]
  /\ fresh \in [Call -> Token \cup {NoToken}]
  /\ answer \in [Call -> Answer]
  /\ late \subseteq Statement
  /\ from \in [Token -> Token \cup {NoToken}]
  /\ stale \subseteq Call /\ burned \subseteq Family
  /\ faults \in 0..MaxFaults
  /\ \A t \in held : Issued(t)

\* A token is spent before its successor exists: whatever fails, dies or is
\* carried out late, a session never has a live token and a live successor of
\* it at once.
SpentBeforeReplaced ==
  \A t \in Token : from[t] # NoToken => rows[from[t]].used

\* A request that arrives with a token spent before never draws a new token:
\* two successors of one token take two requests that overlapped.
ReplayNeverPays ==
  \A c \in stale : fresh[c] = NoToken

\* A family that was revoked while no rotation of it was under way stays
\* revoked as a whole: none of its tokens, held by whomever, works again.
BurnedStaysBurned ==
  \A t \in Token : rows[t].family \in burned => rows[t].revoked

\* A session is only revoked after one of its own tokens was presented twice:
\* failures, crashes and other sessions never cost a client that presents each
\* token once its session.
NoFalseReuse ==
  \A t \in Token : rows[t].revoked =>
     \E c, d \in Call : /\ c # d /\ token[c] = token[d] /\ token[c] # NoToken
                        /\ FamilyOf(c) = rows[t].family

\* "Burning the whole family forces re-authentication everywhere"
\* (auth_service.go:153): no token of a family of which one is revoked still works.
BurningForcesLogin ==
  \A t, u \in Token :
    (rows[t].revoked /\ rows[u].family = rows[t].family) =>
       rows[u].revoked \/ rows[u].used \/ u \in expired \/ u \notin held

=============================================================================
