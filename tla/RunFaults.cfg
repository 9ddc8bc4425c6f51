\* One session, two turns: every fault of one boot and one namespace.
SPECIFICATION FairSpec
CONSTANTS
  s1 = s1
  s2 = s2
  host1 = host1
  container1 = container1
  NoSession = NoSession
  Sessions = {s1}
  Namespaces = {host1}
  MaxRuns = 2
  MaxLimit = 1
  MaxCommands = 0
  MaxBoot = 1
  MaxBinary = 1
  Faults = {"crash", "error", "signal", "residue", "lost_result"}
INVARIANTS
  NoEscapedExecution
  CompletedIsEvidenced
PROPERTIES
  EveryRunSettles
