\* One revision that three calls cannot pay for and six calls can; everybody
\* interferes.
SPECIFICATION FairSpec
CONSTANTS
  MaxRevisions = 1
  MaxCalls = 6
  Policies <- BothBudgets
  Activities = {"accept", "stop", "foreign", "clock", "refuse", "lost_result", "quarantine"}
INVARIANTS
  TurnsAnswerEachOther
PROPERTIES
  ApprovalExact
  WorkflowConcludes
\* A stopped workflow, or one that is left to Codex, may rest.
CHECK_DEADLOCK FALSE
