\* A client that read the configuration before the migration started.
SPECIFICATION Spec
CONSTANTS
  First = 3
  VERSION = 4
  Clients = {c1, c2}
  MaxLimit = 1
  MaxBinary = 2
  MaxWork = 1
  MaxInterrupts = 1
  Activities = {"relink"}
INVARIANTS
  Resumable
