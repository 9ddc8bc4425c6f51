--------------------------- MODULE BoundedReview ---------------------------
(***************************************************************************)
(* What a workflow promises about model turns (docs/workflows.md): a       *)
(* proposal, its review, perhaps a revision, its review and so on, within  *)
(* the budgets, a proposal only when its review can be paid for, and no    *)
(* turn once automation has ended.                                         *)
(***************************************************************************)
EXTENDS Integers

CONSTANT Policies   \* records of the two budgets, revisions and calls

VARIABLES policy, turns, open

Init == policy \in Policies /\ turns = 0 /\ open = TRUE

Propose ==
  /\ open /\ turns % 2 = 0
  /\ turns + 2 <= policy.calls /\ turns <= 2 * policy.revisions
  /\ turns' = turns + 1 /\ UNCHANGED <<policy, open>>

Review ==
  /\ open /\ turns % 2 = 1
  /\ turns' = turns + 1 /\ UNCHANGED <<policy, open>>

End == open /\ ~open' /\ UNCHANGED <<policy, turns>>

Spec == Init /\ [][Propose \/ Review \/ End]_<<policy, turns, open>>
=============================================================================
