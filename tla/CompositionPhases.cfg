\* Two creators, a ref that moves once, a plan that is revised once and a crash.
SPECIFICATION FairSpec
CONSTANTS
  c1 = c1
  c2 = c2
  Creators = {c1, c2}
  MaxCommits = 2
  MaxRounds = 2
  MaxCrashes = 1
INVARIANTS
  SourcePinned
  PhasesEarned
  AcceptanceVetted
  StopComplete
PROPERTIES
  CompositionSettles
\* A composition may come to rest.
CHECK_DEADLOCK FALSE
