SPECIFICATION FairSpec
CONSTANTS
  Workers = {w1, w2}
  TickMax = 5
INVARIANTS
  TimersTypeOK
  ContextsConserved
  OneLeftBehind
PROPERTIES
  FirstTickHandled
CHECK_DEADLOCK FALSE
