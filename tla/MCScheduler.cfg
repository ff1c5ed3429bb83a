SPECIFICATION FairSpec
CONSTANTS
  Graphs <- MCAll
  Concurrency = 2
INVARIANTS
  RunsAsPlanned
  FatesAreRight
PROPERTY
  RunEnds
CHECK_DEADLOCK FALSE
