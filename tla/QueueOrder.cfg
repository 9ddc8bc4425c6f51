\* Three entries, one slot, dispatched again and again.
SPECIFICATION FairScenarios
CONSTANTS
  NoTask = NoTask
  t1 = t1
  t2 = t2
  t3 = t3
  Scenarios = {"all"}
  Tasks = {t1, t2, t3}
  MaxRevisions = 1
  MaxRuns = 3
  MaxEntries = 3
  MaxParallel = 1
  MaxQueued = 3
  Activities = {"depend", "quarantine"}
INVARIANTS
  DependenciesAcyclic
PROPERTIES
  EntriesServed
\* With every bound used up nothing is left to do.
CHECK_DEADLOCK FALSE
