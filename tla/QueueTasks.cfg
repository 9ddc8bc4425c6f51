\* Three turns of two tasks that share a session, retry and restart; or two queue
\* entries and everything that may race their dispatch.
SPECIFICATION ScenarioSpec
CONSTANTS
  t1 = t1
  t2 = t2
  t3 = t3
  NoTask = NoTask
  Scenarios = {"turns", "entries"}
  Tasks = {t1, t2}
  MaxRevisions = 2
  MaxRuns = 3
  MaxEntries = 2
  MaxParallel = 1
  MaxQueued = 2
  Activities = {"submit", "retry", "revise", "share", "depend", "turn", "restart", "dequeue", "lost_result", "deadline"}
SYMMETRY Symmetry
\* With every bound used up nothing is left to do.
CHECK_DEADLOCK FALSE
INVARIANTS
  RevisionExecutesOnce
  ContextExact
  ConversationMatches
  InputsAccepted
  QueueConsistent
  GivenUpForGood
