-------------------------- MODULE MCRecordedPayment --------------------------
(* One payment and an append of another case: three appends, of which one can *)
(* be acknowledged, one go wrong and one come after it.                       *)
EXTENDS RecordedPayment

CONSTANTS t1, other

MCPayment == {t1}
MCRequest == OfPayment \cup {other}
=============================================================================
