\* Two tasks of the harness, two appliers and the user's shell, one client with two
\* requests for terminals, one Windows child, two messages, or three lines of a
\* stream; everything may go wrong.
SPECIFICATION HostSpec
CONSTANTS
  t1 = t1
  t2 = t2
  Tasks = {t1, t2}
  MaxTurns = 2
  MaxHeads = 1
  Limits = {1, 2}
  p1 = p1
  p2 = p2
  o1 = o1
  o2 = o2
  Appliers = {p1, p2}
  OpIds = {o1, o2}
  MaxEdits = 2
  Accidents = {"crash", "orphan", "editor"}
  c1 = c1
  r1 = r1
  r2 = r2
  i1 = i1
  i2 = i2
  Clients = {c1}
  Requests = {r1, r2}
  Intents = {i1, i2}
  MaxRequests = 2
  MaxAgents = 2
  Kinds = {"run", "check"}
  Mishaps = {"timeout", "helper", "worker", "rejected"}
  MaxMessages = 2
  MaxUnbound = 1
  MaxRevisions = 3
  MaxRuns = 2
  MaxBackends = 2
  MaxLines = 3
INVARIANTS
  TurnsHeld
  ApprovedExact
  AppliedOnce
  LeaseProtects
  TerminalsOwned
  ReportHolds
  DeliveredOnce
  DeliveryExact
  VerdictExact
PROPERTIES
  SupervisionEnds
\* Each of them may come to rest.
CHECK_DEADLOCK FALSE
