SPECIFICATION Spec
CONSTANTS
  c1 = c1
  c2 = c2
  c3 = c3
  a1 = a1
  a2 = a2
  s1 = s1
  s2 = s2
  x1 = x1
  x2 = x2
  CommandIds <- MCCommandIds
  Actors = {a1, a2}
  Slugs = {s1, s2}
  Titles = {t1}
  Texts = {x1, x2}
  Notes = {n1}
  None = None
  Callers = {k1}
  Principals <- MCPrincipals
SYMMETRY MCSymmetry
INVARIANTS
  ProjectionIsReplay
  EffectOncePerCommand
  NoStaleDecision
  OutboxMatchesStreams
  QuarantineHolds
  AnswersAgree
CHECK_DEADLOCK FALSE
