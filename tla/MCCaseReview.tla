----------------------------- MODULE MCCaseReview -----------------------------
(* A request of the page beside one of another client, two refreshes that may  *)
(* answer out of order, and a list of two.                                     *)
EXTENDS CaseReview

CONSTANTS j1, j2

MCOwn == {j1}
MCOther == {j2}
=============================================================================
