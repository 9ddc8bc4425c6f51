\* The same instance: the editor is accepted before it is a member.
SPECIFICATION Spec
CONSTANTS
  c1 = c1
  c2 = c2
  Creators = {c1, c2}
  MaxCommits = 2
  MaxRounds = 2
  MaxCrashes = 1
INVARIANTS
  VetoHolds
\* A composition may come to rest.
CHECK_DEADLOCK FALSE
