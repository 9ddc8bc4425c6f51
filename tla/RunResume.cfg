\* A restarted session whose fresh conversation was never created.
SPECIFICATION Spec
CONSTANTS
  s1 = s1
  s2 = s2
  host1 = host1
  container1 = container1
  NoSession = NoSession
  Sessions = {s1}
  Namespaces = {host1}
  MaxRuns = 3
  MaxLimit = 1
  MaxCommands = 0
  MaxBoot = 1
  MaxBinary = 1
  Faults = {}
INVARIANTS
  ResumeContinuesConversation
