--------------------------- MODULE RecordedPayment ---------------------------
(***************************************************************************)
(* The end of a case (agents-python/app/orchestrator.py finish, payments.py *)
(* apply_payment_control) over the Rust log it writes to: AuditLog with its *)
(* clients and the HTTP requests between them. The last receipt of the case *)
(* is written, the chain verified, the policy receipt written, the chain    *)
(* verified again, and the payment executed or not. What comes before, and  *)
(* the whole of the payment policy, is CasePipeline.                        *)
(***************************************************************************)
EXTENDS AuditLog

CONSTANTS
  Payment   \* transactions; the other requests are other clients'

Receipt(t, kind) == <<t, kind>>
OfPayment == Payment \X {"completed", "policy"}

ASSUME PaymentAssumption == OfPayment \subseteq Request

VARIABLES
  case,   \* each transaction in finish()
  late    \* requests Python gave up on that Rust may still receive

logVars == vars
allVars == <<logVars, case, late>>

\* at: the await it is suspended at, or its end; "answered" is the verification on its
\* way back. errors: whether result.audit["errors"] has any. policy: what payment_policy
\* decided.
Case == [at : {"completed", "verify", "answered", "policy", "verifyAgain",
               "answeredAgain", "executed", "withheld", "lost"},
         answer : BOOLEAN, errors : BOOLEAN,
         status : {"pending", "verified", "failed", "unavailable"},
         policy : {"none", "allow", "hold"}]

Over == {"executed", "withheld", "lost"}

\* The request under way is dead, or carried out later.
Abandon(T) ==
  LET open == {Receipt(t, case[t].at) : t \in T} \cap (OfPayment \ asked)
  IN  \E S \in SUBSET open : late' = late \cup S

Awaited == {Receipt(t, case[t].at) : t \in Payment} \cap OfPayment

-----------------------------------------------------------------------------
(* The log and its requests *)

Receives(r) ==
  /\ r \in OfPayment => r \in Awaited \cup late
  /\ Receive(r)
  /\ late' = late \ {r}
  /\ UNCHANGED case

LogStep ==
  \/ WriteRecord \/ RecordFails
  \/ WriteNewline \/ NewlineFails
  \/ Sync \/ SyncFails
  \/ Crash \/ PowerLoss \/ Open
  \/ \E i \in 1..Len(file), c \in Content : Edit(i, c)

-----------------------------------------------------------------------------
(* finish and apply_payment_control *)

Acknowledged(t) == \E e \in acked : e.content = Receipt(t, case[t].at)

\* The receipt of case.completed, or the exception of its append.
Recorded(t) ==
  /\ case[t].at = "completed"
  /\ \/ Acknowledged(t) /\ case' = [case EXCEPT ![t].at = "verify"] /\ UNCHANGED late
     \/ case' = [case EXCEPT ![t].at = "verify", ![t].errors = TRUE] /\ Abandon({t})
  /\ UNCHANGED logVars

\* The policy, with an allow only for a verified case, and its receipt.
AskPolicy(t, c) ==
  \E p \in {"allow", "hold"} :
    /\ p = "allow" => c.status = "verified"
    /\ case' = [case EXCEPT ![t] = [c EXCEPT !.at = "policy", !.policy = p]]

StatusOf(c) == IF c.answer /\ ~c.errors THEN "verified" ELSE "failed"

Verify(t) ==
  /\ case[t].at = "verify"
  /\ \/ /\ Verifiable
        /\ case' = [case EXCEPT ![t].at = "answered", ![t].answer = Verdict.valid]
     \/ AskPolicy(t, [case[t] EXCEPT !.errors = TRUE, !.status = "unavailable"])
  /\ UNCHANGED <<logVars, late>>

Verified(t) ==
  /\ case[t].at = "answered"
  /\ AskPolicy(t, [case[t] EXCEPT !.status = StatusOf(case[t])])
  /\ UNCHANGED <<logVars, late>>

\* The except of apply_payment_control.
PolicyFails(t) ==
  case' = [case EXCEPT ![t].at = "withheld", ![t].errors = TRUE,
                       ![t].status = IF @ = "failed" THEN @ ELSE "unavailable"]

\* Mutant: a receipt is taken for the record, without a second verification.
PolicyRecorded_Trusted(t) ==
  /\ case[t].at = "policy"
  /\ \/ /\ Acknowledged(t) /\ UNCHANGED late
        /\ case' = [case EXCEPT ![t].at = IF case[t].policy = "allow"
                                          THEN "executed" ELSE "withheld"]
     \/ PolicyFails(t) /\ Abandon({t})
  /\ UNCHANGED logVars

PolicyRecorded(t) ==
  /\ case[t].at = "policy"
  /\ \/ Acknowledged(t) /\ case' = [case EXCEPT ![t].at = "verifyAgain"] /\ UNCHANGED late
     \/ PolicyFails(t) /\ Abandon({t})
  /\ UNCHANGED logVars

VerifyAgain(t) ==
  /\ case[t].at = "verifyAgain"
  /\ \/ /\ Verifiable
        /\ case' = [case EXCEPT ![t].at = "answeredAgain", ![t].answer = Verdict.valid]
     \/ PolicyFails(t)
  /\ UNCHANGED <<logVars, late>>

Decide(t) ==
  /\ case[t].at = "answeredAgain"
  /\ LET status == StatusOf(case[t]) IN
     case' = [case EXCEPT ![t].status = status,
                          ![t].at = IF case[t].policy = "allow" /\ status = "verified"
                                    THEN "executed" ELSE "withheld"]
  /\ UNCHANGED <<logVars, late>>

PythonEnds ==
  /\ \E t \in Payment : case[t].at \notin Over
  /\ case' = [t \in Payment |-> IF case[t].at \in Over THEN case[t]
                                ELSE [case[t] EXCEPT !.at = "lost"]]
  /\ Abandon({t \in Payment : case[t].at \in {"completed", "policy"}})
  /\ UNCHANGED logVars

-----------------------------------------------------------------------------

RecordInit ==
  /\ Init
  /\ \E E \in SUBSET Payment :   \* those that lost a receipt on the way
       case = [t \in Payment |-> [at |-> "completed", answer |-> FALSE, errors |-> t \in E,
                                  status |-> "pending", policy |-> "none"]]
  /\ late = {}

RecordNext ==
  \/ \E r \in Request : Receives(r)
  \/ LogStep /\ UNCHANGED <<case, late>>
  \/ \E t \in Payment : \/ Recorded(t) \/ Verify(t) \/ Verified(t)
                        \/ PolicyRecorded(t) \/ VerifyAgain(t) \/ Decide(t)
  \/ PythonEnds

RecordSpec == RecordInit /\ [][RecordNext]_allVars

\* The container of the log is started again whenever its process has ended
\* (compose.local.yml:5, restart: unless-stopped).
RecordFairSpec == RecordSpec /\ WF_allVars(Open /\ UNCHANGED <<case, late>>)

-----------------------------------------------------------------------------
(* Properties *)

\* A receipt of the case is on the disk under its own number, where neither a loss of
\* power nor later writes reach it; an edit there shows.
OnDisk(r) ==
  \E e \in acked :
    /\ e.content = r
    /\ e.seq <= durable
    /\ file[e.seq].form = "entry" /\ file[e.seq].entry.hash = e.hash

\* A payment that was executed, and a case that was saved as verified, have both
\* receipts on the disk for good. A receipt alone does not say so: an append to a line
\* of broken bytes is acknowledged too; what it takes is the verification after it,
\* whose answer may be old by the time it is used (payments.py:55-75).
RecordIsKept ==
  \A t \in Payment :
    (case[t].at = "executed" \/ (case[t].at = "withheld" /\ case[t].status = "verified")) =>
       OnDisk(Receipt(t, "completed")) /\ OnDisk(Receipt(t, "policy"))
=============================================================================
