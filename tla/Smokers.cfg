CONSTANTS
  Forever = 2
  MaxFailed = 1
  MaxJoin = 2
SPECIFICATION Spec
INVARIANTS
  OneDealPerAgent
  HowItEnds
PROPERTY BusinessCloses
\* whoever is blocked when the others are gone stays so
CHECK_DEADLOCK FALSE
