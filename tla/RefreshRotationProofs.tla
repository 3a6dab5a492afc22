------------------------ MODULE RefreshRotationProofs ------------------------
(* Theorems about RefreshRotation, for every set of requests, sessions and  *)
(* tokens and every number of failures.                                     *)
EXTENDS RefreshRotation, TLAPS

\* A request presents a token of the table, and knows as much of it as its
\* place in Refresh says.
Placed(c) ==
  /\ pc[c] = "idle" => token[c] = NoToken
  /\ token[c] # NoToken => Issued(token[c])
  /\ pc[c] \in {"mark", "user", "save", "revoke"} => token[c] # NoToken
  /\ pc[c] \in {"user", "save"} => rows[token[c]].used
  /\ pc[c] \notin {"save", "done"} => fresh[c] = NoToken
  /\ pc[c] = "save" => fresh[c] # NoToken /\ ~Issued(fresh[c])

\* A statement nobody waits for is that of one request, which is over.
Orphan(s) ==
  /\ Issued(s.at)
  /\ \E c \in Call : pc[c] = "done" /\ token[c] = s.at /\ fresh[c] = s.new
  /\ s.op = "save" => /\ s.new # NoToken /\ ~Issued(s.new)
                      /\ rows[s.at].used

\* No token is drawn twice.
DrawnOnce ==
  \A c, d \in Call : (fresh[c] = fresh[d] /\ fresh[c] # NoToken) => c = d

Lineage ==
  \A t \in Token : from[t] # NoToken => Issued(from[t]) /\ rows[from[t]].used

Ash(f) ==
  /\ ~Rotating(f)
  /\ \A t \in Token : rows[t].family = f => rows[t].revoked
  /\ \E t \in Token : rows[t].family = f

\* Somebody else has spent the token.
Spender(t) == \E c \in Call : token[c] = t /\ pc[c] \in {"user", "save", "done"}

\* A token of the family was presented twice.
Twice(f) ==
  \E c, d \in Call : /\ c # d /\ token[c] = token[d] /\ token[c] # NoToken
                     /\ FamilyOf(c) = f

Causes ==
  /\ \A t \in Token : rows[t].used => Spender(t)
  /\ \A t \in Token : rows[t].revoked => Twice(rows[t].family)
  /\ \A c \in Call : pc[c] = "revoke" => Twice(FamilyOf(c))
  /\ \A s \in late : s.op = "revoke" => Twice(rows[s.at].family)

TooLate(c) ==
  /\ token[c] # NoToken /\ rows[token[c]].used
  /\ pc[c] \in {"get", "revoke", "done"}
  /\ fresh[c] = NoToken

RotationInv ==
  /\ TypeOK
  /\ \A c \in Call : Placed(c)
  /\ \A s \in late : Orphan(s)
  /\ DrawnOnce
  /\ Lineage
  /\ \A f \in burned : Ash(f)
  /\ Causes
  /\ \A c \in stale : TooLate(c)

-----------------------------------------------------------------------------

LEMMA Initially == Init => RotationInv
<1> USE RotationAssumption
<1>1. ASSUME Init PROVE TypeOK
  BY <1>1 DEF Init, TypeOK, Row, NoRow, Pc, Answer, Statement
<1>2. ASSUME Init PROVE RotationInv
  BY <1>1, <1>2 DEF Init, RotationInv, Placed, DrawnOnce, Lineage, Causes, NoRow, Issued
<1>3. QED
  BY <1>2

\* What a statement does to the table.
LEMMA CarriedOut ==
  ASSUME TypeOK, NEW s \in Statement, CarryOut(s), s.op = "save" => s.new \in Token
  PROVE  /\ rows' \in [Token -> Row]
         /\ from' \in [Token -> Token \cup {NoToken}]
         /\ rows[s.at].family \in Family => burned' \subseteq Family
         /\ \A t \in Token : (s.op # "save" \/ t # s.new) =>
              /\ rows'[t].family = rows[t].family
              /\ rows[t].used => rows'[t].used
              /\ rows[t].revoked => rows'[t].revoked
              /\ from'[t] = from[t]
<1>1. /\ rows \in [Token -> Row] /\ from \in [Token -> Token \cup {NoToken}]
      /\ burned \subseteq Family /\ s.at \in Token
  BY DEF TypeOK, Statement
<1>2. CASE s.op = "mark"
  <2>1. rows' = [rows EXCEPT ![s.at].used = TRUE] /\ from' = from /\ burned' = burned
    BY <1>2 DEF CarryOut, MarkUsed
  <2>2. rows' \in [Token -> Row]
    BY <1>1, <2>1 DEF Row
  <2>3. ASSUME NEW t \in Token
        PROVE  /\ rows'[t].family = rows[t].family
               /\ rows[t].used => rows'[t].used
               /\ rows[t].revoked => rows'[t].revoked
    <3>1. rows[t] \in Row
      BY <1>1
    <3>2. rows'[t] = IF t = s.at THEN [rows[t] EXCEPT !.used = TRUE] ELSE rows[t]
      BY <1>1, <2>1
    <3>3. QED
      BY <3>1, <3>2 DEF Row
  <2>4. QED
    BY <1>1, <2>1, <2>2, <2>3
<1>3. CASE s.op = "save"
  <2>1. /\ rows' = [rows EXCEPT ![s.new] = [family |-> rows[s.at].family,
                                            used |-> FALSE, revoked |-> FALSE]]
        /\ from' = [from EXCEPT ![s.new] = s.at] /\ burned' = burned
    BY <1>3 DEF CarryOut, Save
  <2>2. [family |-> rows[s.at].family, used |-> FALSE, revoked |-> FALSE] \in Row
    BY <1>1 DEF Row
  <2>3. QED
    BY <1>1, <1>3, <2>1, <2>2
<1>4. CASE s.op = "revoke"
  <2> DEFINE f == rows[s.at].family
  <2>1. /\ rows' = [t \in Token |-> IF rows[t].family = f
                                    THEN [rows[t] EXCEPT !.revoked = TRUE]
                                    ELSE rows[t]]
        /\ burned' \in {burned, burned \cup {f}} /\ from' = from
    BY <1>4 DEF CarryOut, RevokeFamily
  <2>2. \A r \in Row : [r EXCEPT !.revoked = TRUE] \in Row
    BY DEF Row
  <2>3. rows' \in [Token -> Row]
    BY <1>1, <2>1, <2>2
  <2>4. ASSUME NEW t \in Token
        PROVE  /\ rows'[t].family = rows[t].family
               /\ rows[t].used => rows'[t].used
               /\ rows[t].revoked => rows'[t].revoked
    BY <1>1, <2>1 DEF Row
  <2>5. QED
    BY <1>1, <2>1, <2>3, <2>4
<1>5. QED
  BY <1>2, <1>3, <1>4 DEF Statement

\* The statement of a request that waits for one.
LEMMA OwnStatement ==
  ASSUME TypeOK, NEW c \in Call, Placed(c), pc[c] \in {"mark", "save", "revoke"}
  PROVE  /\ StatementOf(c) \in Statement
         /\ StatementOf(c).op = pc[c]
         /\ StatementOf(c).at = token[c] /\ StatementOf(c).new = fresh[c]
         /\ token[c] \in Token
         /\ pc[c] = "save" => fresh[c] \in Token
BY RotationAssumption DEF TypeOK, Placed, StatementOf, Statement

LEMMA AbandonedTypes ==
  ASSUME TypeOK, \A c \in Call : Placed(c), NEW C \in SUBSET Call
  PROVE  Abandoned(C) \subseteq Statement
BY OwnStatement DEF Abandoned

LEMMA TypeStep == RotationInv /\ [Next]_vars => TypeOK'
<1> SUFFICES ASSUME RotationInv, [Next]_vars PROVE TypeOK'
  OBVIOUS
<1> USE RotationAssumption
<1>a. TypeOK /\ (\A c \in Call : Placed(c)) /\ (\A s \in late : Orphan(s))
  BY DEF RotationInv
<1>1. ASSUME NEW f \in Family, NEW t \in Token, Login(f, t) PROVE TypeOK'
  BY <1>a, <1>1 DEF TypeOK, Login, callVars, Row, Issued
<1>2. ASSUME NEW c \in Call, NEW t \in Token \cup {NoToken}, Present(c, t) PROVE TypeOK'
  BY <1>a, <1>2 DEF TypeOK, Present, Goto, tableVars, Pc, Issued
<1>3. ASSUME NEW c \in Call, Get(c) PROVE TypeOK'
  BY <1>a, <1>3 DEF TypeOK, Get, Goto, Reply, tableVars, Pc, Answer, Issued
<1>4. ASSUME NEW c \in Call, Mark(c) PROVE TypeOK'
  <2>1. pc[c] = "mark" /\ CarryOut(StatementOf(c)) /\ Placed(c)
    BY <1>a, <1>4 DEF Mark
  <2>2. /\ rows' \in [Token -> Row] /\ from' \in [Token -> Token \cup {NoToken}]
        /\ \A t \in Token : rows'[t].family = rows[t].family
    BY <1>a, <2>1, OwnStatement, CarriedOut
  <2>3. burned' = burned
    BY <1>a, <2>1, OwnStatement DEF CarryOut, MarkUsed
  <2>4. QED
    BY <1>a, <1>4, <2>2, <2>3 DEF TypeOK, Mark, Goto, Pc, Issued
<1>5. ASSUME NEW c \in Call, NEW t \in Token, Mint(c, t) PROVE TypeOK'
  BY <1>a, <1>5 DEF TypeOK, Mint, Goto, tableVars, Pc, Issued
<1>6. ASSUME NEW c \in Call, Issue(c) PROVE TypeOK'
  <2>1. pc[c] = "save" /\ CarryOut(StatementOf(c)) /\ Placed(c)
    BY <1>a, <1>6 DEF Issue
  <2>2. /\ rows' \in [Token -> Row] /\ from' \in [Token -> Token \cup {NoToken}]
        /\ \A t \in Token : t # fresh[c] => rows'[t].family = rows[t].family
    BY <1>a, <2>1, OwnStatement, CarriedOut
  <2>3. burned' = burned /\ rows'[fresh[c]].family = rows[token[c]].family
    BY <1>a, <2>1, OwnStatement DEF CarryOut, Save, TypeOK
  <2>4. fresh[c] \in Token /\ Issued(token[c])
    BY <2>1, <1>a, OwnStatement DEF Placed
  <2>5. \A t \in held' : Issued(t)'
    BY <1>a, <1>6, <2>2, <2>3, <2>4 DEF Issue, TypeOK, Issued
  <2>6. QED
    BY <1>a, <1>6, <2>2, <2>3, <2>4, <2>5 DEF TypeOK, Issue, Reply, Pc, Answer
<1>7. ASSUME NEW c \in Call, Revoke(c) PROVE TypeOK'
  <2>1. pc[c] = "revoke" /\ CarryOut(StatementOf(c)) /\ Placed(c)
    BY <1>a, <1>7 DEF Revoke
  <2>2. token[c] \in Token /\ rows[token[c]].family \in Family
    BY <1>a, <2>1, OwnStatement DEF Placed, TypeOK, Issued, Row
  <2>3. /\ rows' \in [Token -> Row] /\ from' \in [Token -> Token \cup {NoToken}]
        /\ \A t \in Token : rows'[t].family = rows[t].family
        /\ burned' \subseteq Family
    BY <1>a, <2>1, <2>2, OwnStatement, CarriedOut
  <2>4. QED
    BY <1>a, <1>7, <2>3 DEF TypeOK, Revoke, Reply, Pc, Answer, Issued
<1>8. ASSUME NEW c \in Call, Fail(c) PROVE TypeOK'
  <2>1. Abandoned({c}) \subseteq Statement
    BY <1>a, AbandonedTypes
  <2>2. AnswerToFailure(pc[c]) \in Answer
    <3>1. CASE pc[c] = "get"
      BY <3>1 DEF AnswerToFailure, Answer
    <3>2. CASE pc[c] = "revoke"
      BY <3>2 DEF AnswerToFailure, Answer
    <3>3. CASE pc[c] \notin {"get", "revoke"}
      BY <3>3 DEF AnswerToFailure, Answer
    <3>4. QED
      BY <3>1, <3>2, <3>3
  <2>3. late' \subseteq Statement
    BY <1>a, <1>8, <2>1 DEF TypeOK, Fail
  <2>4. /\ pc' \in [Call -> Pc] /\ answer' \in [Call -> Answer]
        /\ faults' \in 0..MaxFaults
    BY <1>a, <1>8, <2>2 DEF TypeOK, Fail, Reply, Pc
  <2>5. QED
    BY <1>a, <1>8, <2>3, <2>4 DEF TypeOK, Fail, tableVars, Issued
<1>9. ASSUME Crash PROVE TypeOK'
  <2>1. Abandoned(Call) \subseteq Statement
    BY <1>a, AbandonedTypes
  <2>2. QED
    BY <1>a, <1>9, <2>1 DEF TypeOK, Crash, Pc, Answer, tableVars, Issued
<1>10. ASSUME CarryOutLate PROVE TypeOK'
  <2>1. PICK s \in late : CarryOut(s) /\ late' = late \ {s}
                          /\ UNCHANGED <<callVars, expired, held, faults>>
    BY <1>10 DEF CarryOutLate
  <2>2. s \in Statement /\ s.at \in Token /\ Orphan(s)
    BY <1>a, <2>1 DEF TypeOK, Statement
  <2>3. rows[s.at].family \in Family
    BY <1>a, <2>2 DEF Orphan, Issued, TypeOK, Row
  <2>4. s.op = "save" => s.new \in Token
    BY <2>2 DEF Orphan, Statement
  <2>5. /\ rows' \in [Token -> Row] /\ from' \in [Token -> Token \cup {NoToken}]
        /\ burned' \subseteq Family
        /\ \A t \in Token : (s.op # "save" \/ t # s.new) =>
              rows'[t].family = rows[t].family
    BY <1>a, <2>1, <2>2, <2>3, <2>4, CarriedOut
  <2>6. \A t \in held : Issued(t)'
    BY <1>a, <2>2, <2>5 DEF TypeOK, Orphan, Issued
  <2>7. QED
    BY <1>a, <2>1, <2>5, <2>6 DEF TypeOK, callVars
<1>11. ASSUME NEW t \in Token, Expire(t) PROVE TypeOK'
  BY <1>a, <1>11 DEF TypeOK, Expire, callVars, tableVars, Issued
<1>12. ASSUME UNCHANGED vars PROVE TypeOK'
  BY <1>a, <1>12 DEF TypeOK, vars, callVars, tableVars, Issued
<1>13. QED
  BY <1>1, <1>2, <1>3, <1>4, <1>5, <1>6, <1>7, <1>8, <1>9, <1>10, <1>11, <1>12 DEF Next


\* No step takes back what the table says of a token, or what a request holds.
Kept(t) ==
  Issued(t) => /\ rows'[t].family = rows[t].family
               /\ rows[t].used => rows'[t].used
               /\ rows[t].revoked => rows'[t].revoked
               /\ from'[t] = from[t]

LEMMA Monotone ==
  ASSUME RotationInv, [Next]_vars
  PROVE  /\ \A t \in Token : Kept(t)
         /\ \A c \in Call : token[c] # NoToken => token'[c] = token[c]
<1> USE RotationAssumption
<1>a. TypeOK /\ (\A c \in Call : Placed(c)) /\ (\A s \in late : Orphan(s))
  BY DEF RotationInv
<1> DEFINE Goal == /\ \A t \in Token : Kept(t)
                   /\ \A c \in Call : token[c] # NoToken => token'[c] = token[c]
<1>1. ASSUME NEW f \in Family, NEW t \in Token, Login(f, t) PROVE Goal
  BY <1>a, <1>1 DEF TypeOK, Login, callVars, Kept, Unused
<1>2. ASSUME UNCHANGED tableVars,
             \A c \in Call : token[c] # NoToken => token'[c] = token[c]
      PROVE  Goal
  BY <1>2 DEF tableVars, Kept
<1>3. ASSUME NEW c \in Call, NEW t \in Token \cup {NoToken}, Present(c, t) PROVE Goal
  BY <1>a, <1>2, <1>3 DEF TypeOK, Present, Placed
<1>4. ASSUME NEW c \in Call, Get(c) PROVE Goal
  BY <1>2, <1>4 DEF Get
<1>5. ASSUME NEW c \in Call, NEW s \in Statement, CarryOut(s), UNCHANGED token,
             s.op = "save" => s.new \in Token /\ ~Issued(s.new)
      PROVE  Goal
  BY <1>a, <1>5, CarriedOut DEF Kept
<1>6. ASSUME NEW c \in Call, Mark(c) \/ Issue(c) \/ Revoke(c) PROVE Goal
  <2>1. Placed(c) /\ pc[c] \in {"mark", "save", "revoke"}
    BY <1>a, <1>6 DEF Mark, Issue, Revoke
  <2>2. PICK s \in Statement : s = StatementOf(c)
    BY <1>a, <2>1, OwnStatement
  <2>3. CarryOut(s) /\ UNCHANGED token
    BY <1>6, <2>2 DEF Mark, Issue, Revoke
  <2>4. s.op = "save" => s.new \in Token /\ ~Issued(s.new)
    BY <1>a, <2>1, <2>2, OwnStatement DEF Placed
  <2>5. QED
    BY <1>5, <2>3, <2>4
<1>7. ASSUME NEW c \in Call, NEW t \in Token, Mint(c, t) PROVE Goal
  BY <1>2, <1>7 DEF Mint
<1>8. ASSUME NEW c \in Call, Fail(c) PROVE Goal
  BY <1>2, <1>8 DEF Fail
<1>9. ASSUME Crash PROVE Goal
  BY <1>2, <1>9 DEF Crash
<1>10. ASSUME CarryOutLate PROVE Goal
  <2>1. PICK s \in late : CarryOut(s) /\ UNCHANGED token
    BY <1>10 DEF CarryOutLate, callVars
  <2>2. s \in Statement /\ (s.op = "save" => s.new \in Token /\ ~Issued(s.new))
    BY <1>a DEF TypeOK, Orphan, Statement
  <2>3. PICK c \in Call : TRUE
    BY <1>a, <2>1 DEF Orphan
  <2>4. QED
    BY <1>5, <2>1, <2>2
<1>11. ASSUME NEW t \in Token, Expire(t) PROVE Goal
  BY <1>2, <1>11 DEF Expire, callVars
<1>12. ASSUME UNCHANGED vars PROVE Goal
  BY <1>2, <1>12 DEF vars, callVars
<1>13. QED
  BY <1>1, <1>3, <1>4, <1>6, <1>7, <1>8, <1>9, <1>10, <1>11, <1>12 DEF Next

\* A token enters the table as one nobody had drawn, as a request's own, or by
\* the statement of a request that is over.
LEMMA Entering ==
  ASSUME RotationInv, [Next]_vars, NEW t \in Token, ~Issued(t), Issued(t)'
  PROVE  \/ /\ \A c \in Call : fresh[c] # t
            /\ \A u \in Token : rows[u].family # rows'[t].family
            /\ UNCHANGED <<callVars, late>>
         \/ \E c \in Call : /\ pc[c] = "save" /\ fresh[c] = t /\ pc'[c] = "done"
                            /\ rows'[t].family = FamilyOf(c)
         \/ \E s \in late : /\ s.op = "save" /\ s.new = t
                            /\ late' = late \ {s} /\ UNCHANGED callVars
                            /\ rows'[t].family = rows[s.at].family
<1> USE RotationAssumption
<1>a. TypeOK /\ (\A c \in Call : Placed(c)) /\ (\A s \in late : Orphan(s))
  BY DEF RotationInv
<1>b. rows'[t].family # rows[t].family
  BY DEF Issued
<1>1. ASSUME NEW f \in Family, NEW u \in Token, Login(f, u)
      PROVE  /\ \A c \in Call : fresh[c] # t
             /\ \A v \in Token : rows[v].family # rows'[t].family
             /\ UNCHANGED <<callVars, late>>
  BY <1>a, <1>b, <1>1 DEF TypeOK, Login, Unused
<1>2. ASSUME NEW c \in Call, Mark(c) \/ Issue(c) \/ Revoke(c)
      PROVE  /\ pc[c] = "save" /\ fresh[c] = t /\ pc'[c] = "done"
             /\ rows'[t].family = FamilyOf(c)
  <2>1. Placed(c) /\ pc[c] \in {"mark", "save", "revoke"} /\ CarryOut(StatementOf(c))
    BY <1>a, <1>2 DEF Mark, Issue, Revoke
  <2>2. StatementOf(c).op = "save" /\ StatementOf(c).new = t
    BY <1>a, <1>b, <2>1, OwnStatement, CarriedOut
  <2>3. pc[c] = "save" /\ fresh[c] = t
    BY <1>a, <2>1, <2>2, OwnStatement
  <2>4. rows'[t].family = FamilyOf(c)
    BY <1>a, <2>1, <2>2, <2>3, OwnStatement DEF CarryOut, Save, TypeOK, FamilyOf
  <2>5. QED
    BY <1>2, <1>a, <2>3, <2>4 DEF Mark, Issue, Revoke, Reply, TypeOK
<1>3. ASSUME CarryOutLate
      PROVE  \E s \in late : /\ s.op = "save" /\ s.new = t
                             /\ late' = late \ {s} /\ UNCHANGED callVars
                             /\ rows'[t].family = rows[s.at].family
  <2>1. PICK s \in late : CarryOut(s) /\ late' = late \ {s} /\ UNCHANGED callVars
    BY <1>3 DEF CarryOutLate
  <2>2. s \in Statement /\ (s.op = "save" => s.new \in Token)
    BY <1>a DEF TypeOK, Orphan, Statement
  <2>3. s.op = "save" /\ s.new = t
    BY <1>a, <1>b, <2>1, <2>2, CarriedOut
  <2>4. rows'[t].family = rows[s.at].family
    BY <1>a, <2>1, <2>3 DEF CarryOut, Save, TypeOK
  <2>5. QED
    BY <2>1, <2>3, <2>4
<1>4. rows' # rows
  BY <1>b
<1>5. QED
  BY <1>1, <1>2, <1>3, <1>4
     DEF Next, vars, tableVars, Present, Get, Mint, Fail, Crash, Expire


\* The ways a step can take one request.
Stays(c) == pc'[c] = pc[c] /\ token'[c] = token[c] /\ fresh'[c] = fresh[c]
Arrives(c) == /\ pc[c] = "idle" /\ pc'[c] = "get" /\ fresh'[c] = fresh[c]
              /\ token'[c] \in held \cup {NoToken}
Reads(c) == /\ pc[c] = "get" /\ token[c] # NoToken /\ rows' = rows
            /\ pc'[c] = (IF Replayed(token[c]) THEN "revoke" ELSE "mark")
            /\ token'[c] = token[c] /\ fresh'[c] = fresh[c]
Spends(c) == /\ pc[c] = "mark" /\ pc'[c] = "user" /\ rows'[token[c]].used
             /\ token'[c] = token[c] /\ fresh'[c] = fresh[c]
Draws(c) == /\ pc[c] = "user" /\ pc'[c] = "save" /\ rows' = rows
            /\ token'[c] = token[c] /\ fresh'[c] \in Token /\ Unused(fresh'[c])
Ends(c) == /\ pc[c] # "idle" /\ pc'[c] = "done"
           /\ token'[c] = token[c] /\ fresh'[c] = fresh[c]

Moves(c) == \/ Stays(c) \/ Arrives(c) \/ Reads(c)
            \/ Spends(c) \/ Draws(c) \/ Ends(c)

LEMMA Moving ==
  ASSUME RotationInv, [Next]_vars, NEW c \in Call
  PROVE  Moves(c)
<1> USE RotationAssumption
<1>a. /\ TypeOK /\ (\A d \in Call : Placed(d))
      /\ pc \in [Call -> Pc] /\ token \in [Call -> Token \cup {NoToken}]
      /\ fresh \in [Call -> Token \cup {NoToken}] /\ rows \in [Token -> Row]
  BY DEF RotationInv, TypeOK
<1>1. ASSUME UNCHANGED <<pc, token, fresh>> PROVE Moves(c)
  BY <1>1 DEF Moves, Stays
<1>2. ASSUME NEW d \in Call, NEW t \in Token \cup {NoToken}, Present(d, t) PROVE Moves(c)
  BY <1>a, <1>2 DEF Present, Goto, Moves, Stays, Arrives
<1>3. ASSUME NEW d \in Call, Get(d) PROVE Moves(c)
  BY <1>a, <1>3 DEF Get, Goto, Reply, tableVars, Moves, Stays, Reads, Ends
<1>4. ASSUME NEW d \in Call, Mark(d) PROVE Moves(c)
  <2>1. Placed(d) /\ pc[d] = "mark" /\ CarryOut(StatementOf(d))
    BY <1>a, <1>4 DEF Mark
  <2>2. MarkUsed(token[d]) /\ token[d] \in Token
    BY <1>a, <2>1, OwnStatement DEF CarryOut
  <2>3. rows'[token[d]].used
    BY <1>a, <2>2 DEF MarkUsed, Row
  <2>4. QED
    BY <1>a, <1>4, <2>3 DEF Mark, Goto, Moves, Stays, Spends
<1>5. ASSUME NEW d \in Call, NEW t \in Token, Mint(d, t) PROVE Moves(c)
  BY <1>a, <1>5 DEF Mint, Goto, tableVars, Moves, Stays, Draws
<1>6. ASSUME NEW d \in Call, Issue(d) \/ Revoke(d) \/ Fail(d) PROVE Moves(c)
  BY <1>a, <1>6 DEF Issue, Revoke, Fail, Reply, Moves, Stays, Ends
<1>7. ASSUME Crash PROVE Moves(c)
  BY <1>a, <1>7 DEF Crash, Running, Moves, Stays, Ends
<1>8. QED
  BY <1>1, <1>2, <1>3, <1>4, <1>5, <1>6, <1>7
     DEF Next, Login, CarryOutLate, Expire, vars, callVars

\* A statement is abandoned by a request that waited for it and is over.
LEMMA Abandoning ==
  ASSUME RotationInv, [Next]_vars, NEW s \in late', s \notin late
  PROVE  \E c \in Call : /\ pc[c] \in {"mark", "save", "revoke"}
                         /\ s = StatementOf(c) /\ pc'[c] = "done"
                         /\ UNCHANGED <<tableVars, token, fresh>>
<1>a. pc \in [Call -> Pc]
  BY DEF RotationInv, TypeOK
<1>1. ASSUME NEW c \in Call, Fail(c)
      PROVE  /\ pc[c] \in {"mark", "save", "revoke"}
             /\ s = StatementOf(c) /\ pc'[c] = "done"
             /\ UNCHANGED <<tableVars, token, fresh>>
  BY <1>a, <1>1 DEF Fail, Abandoned, Reply
<1>2. ASSUME Crash
      PROVE  \E c \in Call : /\ pc[c] \in {"mark", "save", "revoke"}
                             /\ s = StatementOf(c) /\ pc'[c] = "done"
                             /\ UNCHANGED <<tableVars, token, fresh>>
  BY <1>a, <1>2 DEF Crash, Abandoned, Running
<1>3. QED
  BY <1>1, <1>2 DEF Next, Login, Present, Get, Mark, Mint, Issue, Revoke,
     CarryOutLate, Expire, vars

LEMMA PlacedStep ==
  ASSUME RotationInv, [Next]_vars, NEW c \in Call
  PROVE  Placed(c)'
<1> USE RotationAssumption
<1>a. /\ TypeOK /\ Placed(c) /\ DrawnOnce /\ (\A s \in late : Orphan(s)) /\ Moves(c)
      /\ token[c] \in Token \cup {NoToken} /\ fresh[c] \in Token \cup {NoToken}
      /\ pc \in [Call -> Pc]
  BY Moving DEF RotationInv, TypeOK
<1>b. \A t \in Token : Kept(t)
  BY Monotone
<1>1. pc'[c] = "idle" => token'[c] = NoToken
  BY <1>a DEF Moves, Stays, Arrives, Reads, Spends, Draws, Ends, Placed
<1>2. token'[c] # NoToken => rows'[token'[c]].family # NoFamily
  <2>1. CASE Arrives(c)
    <3>1. token'[c] \in held \cup {NoToken}
      BY <2>1 DEF Arrives
    <3>2. \A t \in held : Issued(t) /\ t \in Token
      BY <1>a DEF TypeOK
    <3>3. QED
      BY <3>1, <3>2, <1>b DEF Kept, Issued
  <2>2. CASE ~Arrives(c)
    BY <1>a, <1>b, <2>2 DEF Moves, Stays, Reads, Spends, Draws, Ends, Placed, Kept, Issued
  <2>3. QED
    BY <2>1, <2>2
<1>3. pc'[c] \in {"mark", "user", "save", "revoke"} => token'[c] # NoToken
  BY <1>a DEF Moves, Stays, Arrives, Reads, Spends, Draws, Ends, Placed
<1>4. pc'[c] \in {"user", "save"} => rows'[token'[c]].used
  BY <1>a, <1>b DEF Moves, Stays, Arrives, Reads, Spends, Draws, Ends, Placed, Kept
<1>5. pc'[c] \notin {"save", "done"} => fresh'[c] = NoToken
  BY <1>a DEF Moves, Stays, Arrives, Reads, Spends, Draws, Ends, Placed
<1>6. ASSUME pc'[c] = "save" PROVE fresh'[c] # NoToken /\ rows'[fresh'[c]].family = NoFamily
  <2>1. CASE Draws(c)
    BY <2>1 DEF Draws, Unused, Issued
  <2>2. CASE Stays(c)
    <3>1. pc[c] = "save" /\ fresh'[c] = fresh[c] /\ fresh[c] \in Token /\ ~Issued(fresh[c])
      BY <1>a, <1>6, <2>2 DEF Stays, Placed
    <3>2. PICK t \in Token : t = fresh[c]
      BY <3>1
    <3>3. ~Issued(t)'
      <4>1. SUFFICES ASSUME Issued(t)' PROVE FALSE
        OBVIOUS
      <4>2. \/ \A d \in Call : fresh[d] # t
            \/ \E d \in Call : pc[d] = "save" /\ fresh[d] = t /\ pc'[d] = "done"
            \/ \E s \in late : s.op = "save" /\ s.new = t
        BY <3>1, <3>2, <4>1, Entering
      <4>3. QED
        BY <1>a, <1>6, <3>1, <3>2, <4>2 DEF DrawnOnce, Orphan
    <3>4. QED
      BY <3>1, <3>2, <3>3 DEF Issued
  <2>3. QED
    BY <1>a, <1>6, <2>1, <2>2 DEF Moves, Arrives, Reads, Spends, Ends
<1>7. QED
  BY <1>1, <1>2, <1>3, <1>4, <1>5, <1>6 DEF Placed, Issued


LEMMA OrphanStep ==
  ASSUME RotationInv, [Next]_vars, NEW s \in late'
  PROVE  Orphan(s)'
<1> USE RotationAssumption
<1>a. /\ TypeOK /\ (\A d \in Call : Placed(d)) /\ (\A r \in late : Orphan(r)) /\ DrawnOnce
      /\ late \subseteq Statement
  BY DEF RotationInv, TypeOK
<1>b. \A t \in Token : Kept(t)
  BY Monotone
<1>c. \A d \in Call : Moves(d)
  BY Moving
<1>1. CASE s \notin late
  <2>1. PICK c \in Call : /\ pc[c] \in {"mark", "save", "revoke"}
                          /\ s = StatementOf(c) /\ pc'[c] = "done"
                          /\ UNCHANGED <<tableVars, token, fresh>>
    BY <1>1, Abandoning
  <2>2. /\ s.op = pc[c] /\ s.at = token[c] /\ s.new = fresh[c]
        /\ token[c] \in Token /\ Placed(c)
    BY <1>a, <2>1, OwnStatement
  <2>3. QED
    BY <2>1, <2>2 DEF Orphan, Placed, Issued, tableVars
<1>2. CASE s \in late
  <2>1. Orphan(s) /\ s.at \in Token /\ s \in Statement
    BY <1>a, <1>2 DEF Statement
  <2>2. Issued(s.at)' /\ (rows[s.at].used => rows'[s.at].used)
    BY <1>b, <2>1 DEF Kept, Issued, Orphan
  <2>3. PICK c \in Call : pc[c] = "done" /\ token[c] = s.at /\ fresh[c] = s.new
    BY <2>1 DEF Orphan
  <2>4. pc'[c] = "done" /\ token'[c] = s.at /\ fresh'[c] = s.new
    BY <1>c, <2>3 DEF Moves, Stays, Arrives, Reads, Spends, Draws, Ends
  <2>5. ASSUME s.op = "save", Issued(s.new)' PROVE FALSE
    <3>1. s.new \in Token /\ ~Issued(s.new) /\ s.new # NoToken
      BY <2>1, <2>5 DEF Orphan, Statement
    <3>2. \/ \A d \in Call : fresh[d] # s.new
          \/ \E d \in Call : pc[d] = "save" /\ fresh[d] = s.new
          \/ \E r \in late : /\ r.op = "save" /\ r.new = s.new
                             /\ late' = late \ {r}
      BY <2>5, <3>1, Entering
    <3>3. PICK r \in late : r.op = "save" /\ r.new = s.new /\ late' = late \ {r}
      BY <1>a, <2>3, <3>1, <3>2 DEF DrawnOnce
    <3>4. PICK d \in Call : token[d] = r.at /\ fresh[d] = r.new
      BY <1>a, <3>3 DEF Orphan
    <3>5. r.at = s.at
      BY <1>a, <2>3, <3>1, <3>3, <3>4 DEF DrawnOnce
    <3>6. r = s
      <4>1. \A x \in Statement : x = [op |-> x.op, at |-> x.at, new |-> x.new]
        BY DEF Statement
      <4>2. QED
        BY <1>a, <2>1, <2>5, <3>3, <3>5, <4>1
    <3>7. QED
      BY <3>3, <3>6
  <2>6. QED
    BY <2>1, <2>2, <2>4, <2>5 DEF Orphan
<1>3. QED
  BY <1>1, <1>2

LEMMA DrawnStep ==
  ASSUME RotationInv, [Next]_vars
  PROVE  DrawnOnce'
<1>a. DrawnOnce /\ fresh \in [Call -> Token \cup {NoToken}]
  BY DEF RotationInv, TypeOK
<1>1. ASSUME NEW c \in Call, NEW t \in Token, Mint(c, t) PROVE DrawnOnce'
  BY <1>a, <1>1 DEF Mint, Unused, DrawnOnce
<1>2. ASSUME UNCHANGED fresh PROVE DrawnOnce'
  BY <1>a, <1>2 DEF DrawnOnce
<1>3. QED
  BY <1>1, <1>2 DEF Next, vars, callVars, Login, Present, Get, Mark, Issue, Revoke,
     Fail, Crash, CarryOutLate, Expire

LEMMA LineageStep ==
  ASSUME RotationInv, [Next]_vars
  PROVE  Lineage'
<1> USE RotationAssumption
<1>a. /\ TypeOK /\ (\A d \in Call : Placed(d)) /\ (\A r \in late : Orphan(r)) /\ Lineage
      /\ late \subseteq Statement /\ from \in [Token -> Token \cup {NoToken}]
  BY DEF RotationInv, TypeOK
<1>b. \A t \in Token : Kept(t)
  BY Monotone
<1>1. ASSUME NEW t \in Token, from'[t] = from[t], from'[t] # NoToken
      PROVE  Issued(from[t])' /\ rows'[from'[t]].used
  <2>1. PICK u \in Token : u = from[t]
    BY <1>a, <1>1
  <2>2. Issued(u) /\ rows[u].used
    BY <1>a, <1>1, <2>1 DEF Lineage
  <2>3. QED
    BY <1>b, <1>1, <2>1, <2>2 DEF Kept, Issued
<1>2. ASSUME NEW p \in Token, NEW u \in Token, Save(p, u), Issued(p), rows[p].used
      PROVE  Lineage'
  <2>1. from' = [from EXCEPT ![u] = p]
    BY <1>2 DEF Save
  <2>2. Issued(p)' /\ rows'[p].used
    BY <1>b, <1>2 DEF Kept, Issued
  <2>3. QED
    BY <1>a, <1>1, <2>1, <2>2 DEF Lineage
<1>3. ASSUME UNCHANGED from PROVE Lineage'
  BY <1>1, <1>3 DEF Lineage
<1>4. ASSUME NEW c \in Call, Mark(c) \/ Issue(c) \/ Revoke(c) PROVE Lineage'
  <2>1. Placed(c) /\ pc[c] \in {"mark", "save", "revoke"} /\ CarryOut(StatementOf(c))
    BY <1>a, <1>4 DEF Mark, Issue, Revoke
  <2>2. CASE pc[c] = "save"
    <3>1. Save(token[c], fresh[c]) /\ token[c] \in Token /\ fresh[c] \in Token
      BY <1>a, <2>1, <2>2, OwnStatement DEF CarryOut
    <3>2. PICK p \in Token, u \in Token : p = token[c] /\ u = fresh[c]
      BY <3>1
    <3>3. QED
      BY <1>2, <2>1, <2>2, <3>1, <3>2 DEF Placed
  <2>3. CASE pc[c] # "save"
    BY <1>3, <1>a, <2>1, <2>3, OwnStatement DEF CarryOut, MarkUsed, RevokeFamily
  <2>4. QED
    BY <2>2, <2>3
<1>5. ASSUME CarryOutLate PROVE Lineage'
  <2>1. PICK s \in late : CarryOut(s)
    BY <1>5 DEF CarryOutLate
  <2>2. Orphan(s) /\ s \in Statement
    BY <1>a
  <2>3. CASE s.op = "save"
    BY <1>2, <2>1, <2>2, <2>3 DEF CarryOut, Orphan, Statement
  <2>4. CASE s.op # "save"
    BY <1>3, <2>1, <2>4 DEF CarryOut, MarkUsed, RevokeFamily
  <2>5. QED
    BY <2>3, <2>4
<1>6. QED
  BY <1>3, <1>4, <1>5 DEF Next, vars, tableVars, Login, Present, Get, Mint, Fail,
     Crash, Expire


\* A rotation of a revoked family does not begin, and nothing enters it.
LEMMA AshStep ==
  ASSUME RotationInv, [Next]_vars, NEW f \in burned
  PROVE  Ash(f)'
<1> USE RotationAssumption
<1>a. /\ TypeOK /\ (\A d \in Call : Placed(d)) /\ (\A r \in late : Orphan(r)) /\ Ash(f)
      /\ late \subseteq Statement /\ f # NoFamily
      /\ token \in [Call -> Token \cup {NoToken}]
  BY DEF RotationInv, TypeOK
<1>b. \A t \in Token : Kept(t)
  BY Monotone
<1>1. ASSUME NEW c \in Call, pc'[c] \in {"mark", "user", "save"},
             rows'[token'[c]].family = f
      PROVE  FALSE
  <2>1. /\ pc[c] \in {"mark", "user", "save"} \/ Reads(c)
        /\ token'[c] = token[c] /\ token[c] \in Token
    BY <1>1, <1>a, Moving DEF Moves, Stays, Arrives, Reads, Spends, Draws, Ends, Placed
  <2>2. Issued(token[c])
    BY <1>a, <2>1 DEF Placed
  <2>3. FamilyOf(c) = f
    BY <1>b, <1>1, <2>1, <2>2 DEF Kept, FamilyOf
  <2>4. rows[token[c]].revoked /\ ~(pc[c] \in {"mark", "user", "save"})
    BY <1>a, <2>1, <2>3 DEF Ash, Rotating, FamilyOf
  <2>5. QED
    BY <1>1, <2>1, <2>4 DEF Reads, Replayed
<1>2. ASSUME NEW s \in late', s.op = "save", rows'[s.at].family = f PROVE FALSE
  <2>1. CASE s \in late
    <3>1. rows[s.at].family = f
      BY <1>a, <1>b, <1>2, <2>1 DEF Orphan, Kept, Statement
    <3>2. QED
      BY <1>a, <1>2, <2>1, <3>1 DEF Ash, Rotating
  <2>2. CASE s \notin late
    <3>1. PICK c \in Call : /\ pc[c] \in {"mark", "save", "revoke"}
                            /\ s = StatementOf(c) /\ UNCHANGED <<tableVars, token>>
      BY <2>2, Abandoning
    <3>2. pc[c] = "save" /\ FamilyOf(c) = f
      BY <1>2, <3>1 DEF StatementOf, tableVars, FamilyOf
    <3>3. QED
      BY <1>a, <3>2 DEF Ash, Rotating
  <2>3. QED
    BY <2>1, <2>2
<1>3. ASSUME NEW t \in Token, rows'[t].family = f PROVE rows'[t].revoked
  <2>1. CASE Issued(t)
    BY <1>a, <1>b, <1>3, <2>1 DEF Kept, Ash
  <2>2. CASE ~Issued(t)
    <3>1. Issued(t)'
      BY <1>a, <1>3 DEF Issued
    <3>2. \/ \A u \in Token : rows[u].family # f
          \/ \E c \in Call : pc[c] = "save" /\ FamilyOf(c) = f
          \/ \E s \in late : s.op = "save" /\ rows[s.at].family = f
      BY <1>3, <2>2, <3>1, Entering
    <3>3. QED
      BY <1>a, <3>2 DEF Ash, Rotating
  <2>3. QED
    BY <2>1, <2>2
<1>4. \E t \in Token : rows'[t].family = f
  <2>1. PICK t \in Token : rows[t].family = f
    BY <1>a DEF Ash
  <2>2. QED
    BY <1>a, <1>b, <2>1 DEF Kept, Issued
<1>5. QED
  BY <1>1, <1>2, <1>3, <1>4 DEF Ash, Rotating, FamilyOf

\* A family is counted as burned only where no rotation of it is left.
LEMMA BurningStep ==
  ASSUME RotationInv, [Next]_vars, NEW f \in burned', f \notin burned
  PROVE  Ash(f)'
<1> USE RotationAssumption
<1>a. /\ TypeOK /\ (\A d \in Call : Placed(d)) /\ (\A r \in late : Orphan(r))
      /\ late \subseteq Statement /\ rows \in [Token -> Row]
      /\ pc \in [Call -> Pc] /\ token \in [Call -> Token \cup {NoToken}]
  BY DEF RotationInv, TypeOK
<1>1. ASSUME NEW t \in Token, Issued(t), RevokeFamily(rows[t].family), UNCHANGED token,
             \A c \in Call : pc'[c] \in {"mark", "user", "save"} => pc'[c] = pc[c],
             late' \subseteq late
      PROVE  Ash(f)'
  <2>1. f = rows[t].family /\ ~Rotating(f)
    BY <1>1 DEF RevokeFamily
  <2>2. rows' = [u \in Token |-> IF rows[u].family = f
                                 THEN [rows[u] EXCEPT !.revoked = TRUE] ELSE rows[u]]
    BY <1>1, <2>1 DEF RevokeFamily
  <2>3. \A u \in Token : /\ rows'[u].family = rows[u].family
                         /\ rows[u].family = f => rows'[u].revoked
    <3> TAKE u \in Token
    <3>1. rows[u] \in Row /\ rows'[u] = IF rows[u].family = f
                          THEN [rows[u] EXCEPT !.revoked = TRUE] ELSE rows[u]
      BY <1>a, <2>2
    <3>2. QED
      BY <3>1 DEF Row
  <2>4. ASSUME NEW c \in Call, pc'[c] \in {"mark", "user", "save"}
        PROVE  rows'[token'[c]].family # f
    <3>1. token[c] \in Token /\ pc[c] \in {"mark", "user", "save"} /\ token'[c] = token[c]
      BY <1>a, <1>1, <2>4 DEF Placed
    <3>2. QED
      BY <2>1, <2>3, <3>1 DEF Rotating, FamilyOf
  <2>5. ASSUME NEW s \in late', s.op = "save" PROVE rows'[s.at].family # f
    BY <1>a, <1>1, <2>1, <2>3, <2>5 DEF Rotating, Statement
  <2>6. QED
    BY <2>1, <2>3, <2>4, <2>5 DEF Ash, Rotating, FamilyOf
<1>2. ASSUME NEW c \in Call, Mark(c) \/ Issue(c) PROVE FALSE
  <2>1. Placed(c) /\ pc[c] \in {"mark", "save"} /\ CarryOut(StatementOf(c))
    BY <1>a, <1>2 DEF Mark, Issue
  <2>2. UNCHANGED burned
    BY <1>a, <2>1, OwnStatement DEF CarryOut, MarkUsed, Save
  <2>3. QED
    BY <2>2
<1>3. ASSUME NEW c \in Call, Revoke(c) PROVE Ash(f)'
  <2>1. Placed(c) /\ pc[c] = "revoke" /\ CarryOut(StatementOf(c))
    BY <1>a, <1>3 DEF Revoke
  <2>2. RevokeFamily(rows[token[c]].family) /\ token[c] \in Token /\ Issued(token[c])
    BY <1>a, <2>1, OwnStatement DEF CarryOut, Placed
  <2>3. PICK t \in Token : t = token[c]
    BY <2>2
  <2>4. UNCHANGED token /\ late' \subseteq late
    BY <1>3 DEF Revoke
  <2>5. \A d \in Call : pc'[d] \in {"mark", "user", "save"} => pc'[d] = pc[d]
    BY <1>a, <1>3 DEF Revoke, Reply
  <2>6. QED
    BY <1>1, <2>2, <2>3, <2>4, <2>5
<1>4. ASSUME CarryOutLate PROVE Ash(f)'
  <2>1. PICK s \in late : CarryOut(s) /\ late' = late \ {s} /\ UNCHANGED callVars
    BY <1>4 DEF CarryOutLate
  <2>2. RevokeFamily(rows[s.at].family) /\ s.at \in Token /\ Issued(s.at)
    BY <1>a, <2>1 DEF CarryOut, MarkUsed, Save, Orphan, Statement
  <2>3. QED
    BY <1>1, <2>1, <2>2 DEF callVars
<1>5. QED
  BY <1>2, <1>3, <1>4 DEF Next, vars, tableVars, Login, Present, Get, Mint, Fail,
     Crash, Expire


LEMMA TwiceKept ==
  ASSUME RotationInv, [Next]_vars, NEW f \in Family, Twice(f)
  PROVE  Twice(f)'
<1>a. TypeOK /\ (\A c \in Call : Placed(c)) /\ token \in [Call -> Token \cup {NoToken}]
  BY DEF RotationInv, TypeOK
<1>1. PICK c \in Call, d \in Call :
        c # d /\ token[c] = token[d] /\ token[c] # NoToken /\ FamilyOf(c) = f
  BY DEF Twice
<1>2. token'[c] = token[c] /\ token'[d] = token[d] /\ Kept(token[c]) /\ Issued(token[c])
  BY <1>a, <1>1, Monotone DEF Placed
<1>3. QED
  BY <1>1, <1>2 DEF Twice, FamilyOf, Kept

\* A token is newly spent by a request, or for one that is over.
LEMMA Spending ==
  ASSUME RotationInv, [Next]_vars, NEW t \in Token, rows'[t].used, ~rows[t].used
  PROVE  \E c \in Call : token[c] = t /\ pc[c] \in {"mark", "done"} /\ pc'[c] \in {"user", "done"}
                         /\ token'[c] = t
<1> USE RotationAssumption
<1>a. /\ TypeOK /\ (\A d \in Call : Placed(d)) /\ (\A r \in late : Orphan(r))
      /\ late \subseteq Statement /\ rows \in [Token -> Row] /\ pc \in [Call -> Pc]
  BY DEF RotationInv, TypeOK
<1>1. ASSUME NEW s \in Statement, CarryOut(s) PROVE s.op = "mark" /\ s.at = t
  <2>1. s.op # "save"
    BY <1>a, <1>1 DEF CarryOut, Save
  <2>2. s.op # "revoke"
    <3>1. SUFFICES ASSUME RevokeFamily(rows[s.at].family) PROVE FALSE
      BY <1>1, <2>1 DEF CarryOut
    <3>2. rows[t] \in Row /\ rows'[t] \in {rows[t], [rows[t] EXCEPT !.revoked = TRUE]}
      BY <1>a, <3>1 DEF RevokeFamily
    <3>3. QED
      BY <3>2 DEF Row
  <2>3. MarkUsed(s.at) /\ s.op = "mark"
    BY <1>1, <2>1, <2>2 DEF CarryOut
  <2>4. QED
    BY <1>a, <2>3 DEF MarkUsed
<1>2. ASSUME NEW c \in Call, Mark(c) \/ Issue(c) \/ Revoke(c)
      PROVE  /\ token[c] = t /\ pc[c] = "mark" /\ pc'[c] = "user"
             /\ token'[c] = t
  <2>1. Placed(c) /\ pc[c] \in {"mark", "save", "revoke"} /\ CarryOut(StatementOf(c))
    BY <1>a, <1>2 DEF Mark, Issue, Revoke
  <2>2. pc[c] = "mark" /\ token[c] = t
    BY <1>1, <1>a, <2>1, OwnStatement
  <2>3. QED
    BY <1>a, <1>2, <2>2 DEF Mark, Issue, Revoke, Goto
<1>3. ASSUME CarryOutLate
      PROVE  \E c \in Call : /\ token[c] = t /\ pc[c] = "done" /\ pc'[c] = "done"
                             /\ token'[c] = t
  <2>1. PICK s \in late : CarryOut(s) /\ UNCHANGED callVars
    BY <1>3 DEF CarryOutLate
  <2>2. s.at = t /\ Orphan(s)
    BY <1>a, <1>1, <2>1
  <2>3. QED
    BY <2>1, <2>2 DEF Orphan, callVars
<1>4. ASSUME NEW f \in Family, NEW u \in Token, Login(f, u) PROVE FALSE
  BY <1>a, <1>4 DEF Login
<1>5. rows' # rows
  OBVIOUS
<1>6. QED
  BY <1>2, <1>3, <1>4, <1>5
     DEF Next, vars, tableVars, Present, Get, Mint, Fail, Crash, Expire

\* A token is newly revoked because one of its family was presented twice.
LEMMA Revoking ==
  ASSUME RotationInv, [Next]_vars, NEW t \in Token, rows'[t].revoked, ~rows[t].revoked
  PROVE  Twice(rows[t].family) /\ rows'[t].family = rows[t].family /\ rows[t].family \in Family
<1> USE RotationAssumption
<1>a. /\ TypeOK /\ (\A d \in Call : Placed(d)) /\ (\A r \in late : Orphan(r)) /\ Causes
      /\ late \subseteq Statement /\ rows \in [Token -> Row] /\ pc \in [Call -> Pc]
  BY DEF RotationInv, TypeOK
<1>1. ASSUME NEW s \in Statement, CarryOut(s), Issued(s.at)
      PROVE  /\ s.op = "revoke" /\ rows[t].family = rows[s.at].family
             /\ rows'[t].family = rows[t].family /\ rows[t].family \in Family
  <2>1. rows[t] \in Row
    BY <1>a
  <2>2. s.op # "save"
    BY <1>a, <1>1 DEF CarryOut, Save
  <2>3. s.op # "mark"
    <3>1. SUFFICES ASSUME MarkUsed(s.at) PROVE FALSE
      BY <1>1, <2>2 DEF CarryOut
    <3>2. rows'[t] \in {rows[t], [rows[t] EXCEPT !.used = TRUE]}
      BY <1>a, <3>1 DEF MarkUsed
    <3>3. QED
      BY <2>1, <3>2 DEF Row
  <2>4. RevokeFamily(rows[s.at].family)
    BY <1>1, <2>2, <2>3 DEF CarryOut
  <2>5. rows'[t] = IF rows[t].family = rows[s.at].family
                   THEN [rows[t] EXCEPT !.revoked = TRUE] ELSE rows[t]
    BY <2>4 DEF RevokeFamily
  <2>6. QED
    BY <2>1, <1>1, <2>2, <2>3, <2>5 DEF Row, Issued, Statement
<1>2. ASSUME NEW c \in Call, Mark(c) \/ Issue(c) \/ Revoke(c)
      PROVE  /\ Twice(rows[t].family) /\ rows'[t].family = rows[t].family
             /\ rows[t].family \in Family
  <2>1. Placed(c) /\ pc[c] \in {"mark", "save", "revoke"} /\ CarryOut(StatementOf(c))
    BY <1>a, <1>2 DEF Mark, Issue, Revoke
  <2>2. Issued(token[c]) /\ StatementOf(c) \in Statement /\ StatementOf(c).at = token[c]
        /\ StatementOf(c).op = pc[c]
    BY <1>a, <2>1, OwnStatement DEF Placed
  <2>3. pc[c] = "revoke" /\ rows[t].family = rows[token[c]].family
        /\ rows'[t].family = rows[t].family /\ rows[t].family \in Family
    BY <1>1, <2>1, <2>2
  <2>4. QED
    BY <1>a, <2>3 DEF Causes, FamilyOf
<1>3. ASSUME CarryOutLate
      PROVE  /\ Twice(rows[t].family) /\ rows'[t].family = rows[t].family
             /\ rows[t].family \in Family
  <2>1. PICK s \in late : CarryOut(s)
    BY <1>3 DEF CarryOutLate
  <2>2. Issued(s.at) /\ s \in Statement
    BY <1>a DEF Orphan
  <2>3. QED
    BY <1>a, <1>1, <2>1, <2>2 DEF Causes
<1>4. ASSUME NEW f \in Family, NEW u \in Token, Login(f, u) PROVE FALSE
  BY <1>a, <1>4 DEF Login
<1>5. rows' # rows
  OBVIOUS
<1>6. QED
  BY <1>2, <1>3, <1>4, <1>5
     DEF Next, vars, tableVars, Present, Get, Mint, Fail, Crash, Expire

LEMMA CausesStep ==
  ASSUME RotationInv, [Next]_vars
  PROVE  Causes'
<1> USE RotationAssumption
<1>a. /\ TypeOK /\ (\A d \in Call : Placed(d)) /\ (\A r \in late : Orphan(r)) /\ Causes
      /\ late \subseteq Statement /\ rows \in [Token -> Row] /\ pc \in [Call -> Pc]
      /\ token \in [Call -> Token \cup {NoToken}]
  BY DEF RotationInv, TypeOK
<1>b. /\ \A t \in Token : Kept(t)
      /\ \A c \in Call : token[c] # NoToken => token'[c] = token[c]
  BY Monotone
<1>c. \A d \in Call : Moves(d)
  BY Moving
<1>d. \A f \in Family : Twice(f) => Twice(f)'
  BY TwiceKept
<1>e. \A f : Twice(f) => f \in Family
  <2> TAKE f
  <2>1. SUFFICES ASSUME Twice(f) PROVE f \in Family
    OBVIOUS
  <2>2. PICK c \in Call : token[c] # NoToken /\ FamilyOf(c) = f
    BY <2>1 DEF Twice
  <2>3. token[c] \in Token /\ Issued(token[c]) /\ rows[token[c]] \in Row
    BY <1>a, <2>2 DEF Placed
  <2>4. QED
    BY <2>2, <2>3 DEF FamilyOf, Issued, Row
<1>1. ASSUME NEW t \in Token, rows'[t].used PROVE Spender(t)'
  <2>1. CASE rows[t].used
    <3>1. PICK c \in Call : token[c] = t /\ pc[c] \in {"user", "save", "done"}
      BY <1>a, <2>1 DEF Causes, Spender
    <3>2. token'[c] = t /\ pc'[c] \in {"user", "save", "done"}
      BY <1>c, <3>1 DEF Moves, Stays, Arrives, Reads, Spends, Draws, Ends
    <3>3. QED
      BY <3>2 DEF Spender
  <2>2. CASE ~rows[t].used
    BY <1>1, <2>2, Spending DEF Spender
  <2>3. QED
    BY <2>1, <2>2
<1>2. ASSUME NEW t \in Token, rows'[t].revoked PROVE Twice(rows[t].family)'
  <2>1. Twice(rows[t].family) /\ rows'[t].family = rows[t].family
        /\ rows[t].family \in Family
    <3>1. CASE rows[t].revoked
      <4>1. Twice(rows[t].family) /\ rows[t].family \in Family
        BY <1>a, <1>e, <3>1 DEF Causes
      <4>2. QED
        BY <1>b, <4>1 DEF Kept, Issued
    <3>2. QED
      BY <1>2, <3>1, Revoking
  <2>2. PICK f \in Family : f = rows[t].family
    BY <2>1
  <2>3. Twice(f)'
    BY <1>d, <2>1, <2>2
  <2>4. QED
    BY <2>1, <2>2, <2>3
<1>3. ASSUME NEW c \in Call, pc'[c] = "revoke" PROVE Twice(FamilyOf(c))'
  <2>1. Twice(FamilyOf(c))
    <3>1. CASE pc[c] = "revoke"
      BY <1>a, <3>1 DEF Causes
    <3>2. CASE pc[c] # "revoke"
      <4>1. pc[c] = "get" /\ token[c] # NoToken /\ Replayed(token[c])
        BY <1>3, <1>c, <3>2 DEF Moves, Stays, Arrives, Reads, Spends, Draws, Ends
      <4>2. CASE rows[token[c]].revoked
        BY <1>a, <4>1, <4>2 DEF Causes, FamilyOf
      <4>3. CASE rows[token[c]].used
        <5>1. PICK d \in Call : token[d] = token[c] /\ pc[d] \in {"user", "save", "done"}
          BY <1>a, <4>1, <4>3 DEF Causes, Spender
        <5>2. QED
          BY <4>1, <5>1 DEF Twice
      <4>4. QED
        BY <4>1, <4>2, <4>3 DEF Replayed
    <3>3. QED
      BY <3>1, <3>2
  <2>2. token'[c] = token[c] /\ token[c] \in Token /\ Issued(token[c])
    BY <1>a, <1>c, <1>3 DEF Moves, Stays, Arrives, Reads, Spends, Draws, Ends, Placed
  <2>3. PICK f \in Family : f = FamilyOf(c)
    BY <1>e, <2>1
  <2>4. FamilyOf(c)' = f
    BY <1>b, <2>2, <2>3 DEF Kept, FamilyOf
  <2>5. Twice(f)'
    BY <1>d, <2>1, <2>3
  <2>6. QED
    BY <2>4, <2>5
<1>4. ASSUME NEW s \in late', s.op = "revoke" PROVE Twice(rows[s.at].family)'
  <2>1. s.at \in Token /\ Issued(s.at) /\ Twice(rows[s.at].family)
    <3>1. CASE s \in late
      BY <1>a, <1>4, <3>1 DEF Causes, Orphan, Statement
    <3>2. CASE s \notin late
      <4>1. PICK c \in Call : pc[c] \in {"mark", "save", "revoke"} /\ s = StatementOf(c)
        BY <3>2, Abandoning
      <4>2. s.at = token[c] /\ token[c] \in Token /\ pc[c] = "revoke" /\ Placed(c)
        BY <1>a, <1>4, <4>1, OwnStatement
      <4>3. QED
        BY <1>a, <4>2 DEF Causes, Placed, FamilyOf
    <3>3. QED
      BY <3>1, <3>2
  <2>2. PICK f \in Family : f = rows[s.at].family
    BY <1>e, <2>1
  <2>3. rows'[s.at].family = f
    BY <1>b, <2>1, <2>2 DEF Kept
  <2>4. Twice(f)'
    BY <1>d, <2>1, <2>2
  <2>5. QED
    BY <2>3, <2>4
<1>5. QED
  BY <1>1, <1>2, <1>3, <1>4 DEF Causes

LEMMA TooLateStep ==
  ASSUME RotationInv, [Next]_vars, NEW c \in stale'
  PROVE  TooLate(c)'
<1> USE RotationAssumption
<1>a. /\ TypeOK /\ (\A d \in Call : Placed(d)) /\ (\A d \in stale : TooLate(d))
      /\ stale \subseteq Call /\ pc \in [Call -> Pc]
      /\ token \in [Call -> Token \cup {NoToken}]
  BY DEF RotationInv, TypeOK
<1>b. \A t \in Token : Kept(t)
  BY Monotone
<1>1. CASE c \in stale
  <2>1. c \in Call /\ Moves(c) /\ TooLate(c) /\ Placed(c) /\ token[c] \in Token
    BY <1>a, <1>1, Moving DEF TooLate
  <2>2. rows'[token[c]].used
    BY <1>b, <2>1 DEF TooLate, Placed, Kept
  <2>3. QED
    BY <2>1, <2>2 DEF Moves, Stays, Arrives, Reads, Spends, Draws, Ends, TooLate, Replayed
<1>2. CASE c \notin stale
  <2>1. PICK t \in Token \cup {NoToken} : c \in Call /\ Present(c, t) /\ t # NoToken /\ rows[t].used
    BY <1>2 DEF Next, vars, callVars, Login, Present, Get, Mark, Mint, Issue, Revoke,
       Fail, Crash, CarryOutLate, Expire
  <2>2. QED
    BY <1>a, <2>1 DEF Present, Goto, tableVars, Placed, TooLate
<1>3. QED
  BY <1>1, <1>2

-----------------------------------------------------------------------------

LEMMA Step == RotationInv /\ [Next]_vars => RotationInv'
<1> SUFFICES ASSUME RotationInv, [Next]_vars PROVE RotationInv'
  OBVIOUS
<1>1. TypeOK'
  BY TypeStep
<1>2. \A c \in Call : Placed(c)'
  BY PlacedStep
<1>3. \A s \in late' : Orphan(s)'
  BY OrphanStep
<1>4. \A f \in burned' : Ash(f)'
  BY AshStep, BurningStep
<1>5. \A c \in stale' : TooLate(c)'
  BY TooLateStep
<1>6. QED
  BY <1>1, <1>2, <1>3, <1>4, <1>5, DrawnStep, LineageStep, CausesStep DEF RotationInv

LEMMA Invariance == Spec => []RotationInv
BY Initially, Step, PTL DEF Spec

\* The table, the requests and the abandoned statements keep their types, and
\* no client holds a token that is not in the table.
THEOREM RotationTypes == Spec => []TypeOK
<1>1. RotationInv => TypeOK
  BY DEF RotationInv
<1>2. QED
  BY <1>1, Invariance, PTL

\* However many refreshes overlap, fail or are carried out late, a token is
\* spent before the token that replaces it exists.
THEOREM RotationSpends == Spec => []SpentBeforeReplaced
<1>1. RotationInv => SpentBeforeReplaced
  BY DEF RotationInv, Lineage, SpentBeforeReplaced
<1>2. QED
  BY <1>1, Invariance, PTL

\* A request that arrives with a spent token never draws a successor.
THEOREM ReplayRefused == Spec => []ReplayNeverPays
<1>1. RotationInv => ReplayNeverPays
  BY DEF RotationInv, TooLate, ReplayNeverPays
<1>2. QED
  BY <1>1, Invariance, PTL

\* A family revoked while none of its rotations was under way stays revoked.
THEOREM BurnedForGood == Spec => []BurnedStaysBurned
<1>1. RotationInv => BurnedStaysBurned
  BY DEF RotationInv, Ash, BurnedStaysBurned
<1>2. QED
  BY <1>1, Invariance, PTL

\* No session is revoked unless one of its tokens was presented twice.
THEOREM RevokedForCause == Spec => []NoFalseReuse
<1>1. RotationInv => NoFalseReuse
  BY DEF RotationInv, Causes, Twice, NoFalseReuse
<1>2. QED
  BY <1>1, Invariance, PTL

=============================================================================
