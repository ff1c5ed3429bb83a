SPECIFICATION Spec
CONSTANTS
  c1 = c1
  c2 = c2
  c3 = c3
  a1 = a1
  k1 = k1
  k2 = k2
  CommandIds <- MCCommandIds
  Actors = {a1}
  Slugs = {s1}
  Titles = {t1}
  Texts = {x1}
  Notes = {n1}
  None = None
  Callers <- MCCallers
  Principals <- MCPrincipals
  PoolSize = 2
  OtherCalls = 1
SYMMETRY MCSymmetry
INVARIANTS
  NoConflictBehindLocks
  NoDeadlock
PROPERTY
  ImplementsStore
CHECK_DEADLOCK FALSE
