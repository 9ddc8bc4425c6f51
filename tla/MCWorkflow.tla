----------------------------- MODULE MCWorkflow -----------------------------
(* Budgets for TLC: of three calls none is left for a revision's review; six *)
(* leave calls over when the one revision is used up.                        *)
EXTENDS Workflow, TLC

BothBudgets == {[revisions |-> 1, calls |-> 3], [revisions |-> 1, calls |-> 6]}
=============================================================================
