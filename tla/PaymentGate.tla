----------------------------- MODULE PaymentGate -----------------------------
(* What the payment control promises, without the pipeline around it: the   *)
(* policy receipt is written ahead of the execution it permits, and receipt *)
(* and outcome never contradict each other, whichever comes first.          *)
(* CasePipeline implements this module.                                     *)
CONSTANT Tx

Action == {"allow", "hold", "block"}

VARIABLES
  receipt,  \* the action in the policy receipt on the audit chain, if any
  outcome   \* the payment's outcome; "gone" when its case came to nothing

vars == <<receipt, outcome>>

TypeOK ==
  /\ receipt \in [Tx -> Action \cup {"none"}]
  /\ outcome \in [Tx -> Action \cup {"none", "gone"}]

\* An outcome is the one its receipt announces; a hold may also follow a
\* receipt that allows, and only an execution needs a receipt at all.
Agree(r, o) ==
  \/ o \in {"none", "gone"}
  \/ r = o
  \/ o = "hold" /\ r \in {"none", "allow"}
  \/ o = "block" /\ r = "none"

Init ==
  /\ receipt = [t \in Tx |-> "none"]
  /\ outcome = [t \in Tx |-> "none"]

Write(t, a) ==
  /\ receipt[t] = "none"
  /\ Agree(a, outcome[t])
  /\ receipt' = [receipt EXCEPT ![t] = a]
  /\ UNCHANGED outcome

Settle(t, a) ==
  /\ outcome[t] = "none"
  /\ Agree(receipt[t], a)
  /\ outcome' = [outcome EXCEPT ![t] = a]
  /\ UNCHANGED receipt

\* Cases that end without being saved take their outcome with them.
Discard(T) ==
  /\ outcome' = [t \in Tx |-> IF t \in T THEN "gone" ELSE outcome[t]]
  /\ UNCHANGED receipt

Next ==
  \/ \E t \in Tx, a \in Action : Write(t, a) \/ Settle(t, a)
  \/ \E T \in SUBSET Tx : Discard(T)

Spec == Init /\ [][Next]_vars

\* Every payment's outcome agrees with what the audit chain says of it; in
\* particular an executed payment has its "allow" on the chain.
ReceiptAndOutcomeAgree == \A t \in Tx : Agree(receipt[t], outcome[t])

=============================================================================
