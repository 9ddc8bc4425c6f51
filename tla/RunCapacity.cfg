\* Two sessions and a workspace command compete for at most two slots, or one
\* session meets crashes, leftovers, one reboot, a new binary and two namespaces.
SPECIFICATION Spec
CONSTANTS
  s1 = s1
  s2 = s2
  host1 = host1
  container1 = container1
  NoSession = NoSession
  Sessions = {s1, s2}
  Namespaces = {host1, container1}
  MaxRuns = 2
  MaxLimit = 2
  MaxCommands = 1
  MaxBoot = 2
  MaxBinary = 2
  Faults = {"crash", "residue"}
CONSTRAINT CompetingOrAlone
SYMMETRY Symmetry
PROPERTIES
  SlotsImplemented
  QuarantineHolds
