\* Up to two operations, in one call or in two, and a final one; everything may
\* go wrong.
SPECIFICATION FairSpec
CONSTANTS
  t0 = t0
  t1 = t1
  Trees = {t0, t1}
  Baseline = t0
  MaxCalls = 3
  MaxActions = 2
  MaxBatch = 2
  Parallel = 1
  Faults = {"crash", "tamper", "obstacle", "quarantine"}
INVARIANTS
  LimitHolds
  OperationsOnce
  CallsInformed
PROPERTIES
  ExportExact
  StoppedIsQuiet
  WorkspaceConcludes
\* A finished or stopped workspace may rest.
CHECK_DEADLOCK FALSE
