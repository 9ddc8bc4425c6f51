\* Three steps, interrupted and repeated until the store is upgraded; with and
\* without clients older than the lock and changed binaries; or five events of the
\* observation ledger, read two by two.
SPECIFICATION ScenarioSpec
CONSTANTS
  c1 = c1
  c2 = c2
  First = 3
  VERSION = 6
  Clients = {c1}
  MaxLimit = 1
  MaxBinary = 2
  MaxWork = 2
  MaxInterrupts = 2
  Activities = {"relink", "legacy"}
  w = w
  r = r
  o = o
  Flows = {w}
  Runs = {r}
  Operations = {o}
  PageSize = 2
  MaxEvents = 5
INVARIANTS
  VersionsAgree
  ReplayExact
PROPERTIES
  CompletesAtPresent
